---- MODULE Spec2Model ----
(***************************************************************************)
(* Model of the blackbox Python SDK: the @blackbox decorator (scope name,  *)
(* schema translation, signature hash), the call dispatcher of a wrapped   *)
(* function (sync and async), and the capture path down to the HTTP post.  *)
(***************************************************************************)
EXTENDS Integers, Sequences, FiniteSets, TLC

(***************************************************************************)
(* Bounds of the model.                                                    *)
(***************************************************************************)
MaxCalls == 2
RecursionLimit == 4
MaxSuspend == 1
MaxHandles == 2
MaxNesting == 2
MaxDepth == 1
MaxThreads == 2
MaxSignals == 2

(***************************************************************************)
(* Small helpers on sequences.                                             *)
(***************************************************************************)
Range(s) == {s[i] : i \in 1..Len(s)}

RemoveAt(s, i) == SubSeq(s, 1, i - 1) \o SubSeq(s, i + 1, Len(s))

RECURSIVE FlattenSeq(_)
FlattenSeq(ss) ==
    IF ss = <<>> THEN <<>> ELSE Head(ss) \o FlattenSeq(Tail(ss))

(***************************************************************************)
(* JSON documents (Python dict / list / str / int / bool / None as the     *)
(* schema code builds them).  A dict is its sequence of <<key, value>>     *)
(* pairs in insertion order, as a Python dict keeps them.                  *)
(***************************************************************************)
JNull == <<"null", "null">>
JStr(s) == <<"str", s>>
JInt(n) == <<"int", n>>
JBool(b) == <<"bool", b>>
JList(items) == <<"list", items>>
JDict(pairs) == <<"dict", pairs>>

DictKeys(d) == {d[2][i][1] : i \in 1..Len(d[2])}

DictHas(d, key) == key \in DictKeys(d)

DictGet(d, key) ==
    LET i == CHOOSE j \in 1..Len(d[2]) : d[2][j][1] = key IN d[2][i][2]

\* d[key] = val of a Python dict: replaces in place, or appends a new key
DictSet(d, key, val) ==
    IF DictHas(d, key)
    THEN JDict([i \in 1..Len(d[2]) |->
                  IF d[2][i][1] = key THEN <<key, val>> ELSE d[2][i]])
    ELSE JDict(Append(d[2], <<key, val>>))

(***************************************************************************)
(* json.dumps(combined, sort_keys=True): the document flattened to its     *)
(* token string, the keys of every dict in code-point order.               *)
(***************************************************************************)
\* every key the model uses, in the order Python's sorted() gives them
KeyOrder ==
    << "a", "additionalProperties", "anyOf", "b", "c", "context",
       "description", "extra", "function_name", "input", "items", "maxItems",
       "minItems", "nullable", "output", "properties", "query", "required",
       "result", "self", "this", "title", "type", "x", "y", "z" >>

KeyRank(k) == CHOOSE i \in 1..Len(KeyOrder) : KeyOrder[i] = k

IntToken(n) == << "0", "1", "2", "3", "4", "5", "6", "7", "8", "9" >>[n + 1]

RECURSIVE SortedByKey(_)
SortedByKey(pairs) ==
    IF pairs = <<>> THEN <<>>
    ELSE LET m == CHOOSE i \in 1..Len(pairs) :
                    \A j \in 1..Len(pairs) :
                        KeyRank(pairs[i][1]) <= KeyRank(pairs[j][1])
         IN  <<pairs[m]>> \o SortedByKey(RemoveAt(pairs, m))

RECURSIVE DumpsWith(_, _)
DumpsWith(v, sort_keys) ==
    CASE v[1] = "null" -> <<"null">>
      [] v[1] = "str"  -> <<"\"", v[2]>>
      [] v[1] = "int"  -> <<IntToken(v[2])>>
      [] v[1] = "bool" -> IF v[2] THEN <<"true">> ELSE <<"false">>
      [] v[1] = "list" ->
            <<"[">> \o
            FlattenSeq([i \in 1..Len(v[2]) |->
                          DumpsWith(v[2][i], sort_keys) \o <<",">>])
            \o <<"]">>
      [] v[1] = "dict" ->
            LET ps == IF sort_keys THEN SortedByKey(v[2]) ELSE v[2]
            IN  <<"{">> \o
                FlattenSeq([i \in 1..Len(ps) |->
                              <<"\"", ps[i][1], ":">>
                              \o DumpsWith(ps[i][2], sort_keys) \o <<",">>])
                \o <<"}">>

json_dumps_unsorted(v) == DumpsWith(v, FALSE)

json_dumps_sorted(v) == DumpsWith(v, TRUE)

(***************************************************************************)
(* hashlib.sha256(...).hexdigest(): SHA-256 is taken as collision free, so *)
(* a digest is identified by the bytes it was computed from; it is         *)
(* rendered as DigestHexLen lowercase hex characters.                      *)
(***************************************************************************)
DigestHexLen == 64

sha256_hexdigest(bytes) ==
    [alg |-> "sha256", hex_len |-> DigestHexLen, lowercase |-> TRUE,
     of |-> bytes]

(***************************************************************************)
(* Python type annotations, as inspect and typing report them.  A type is  *)
(* <<tag, payload>>; a generic carries its get_args() as the payload.      *)
(***************************************************************************)
TEmpty == <<"empty", "">>
TNone == <<"None", "">>
TNoneType == <<"NoneType", "">>
TStr == <<"str", "">>
TInt == <<"int", "">>
TFloat == <<"float", "">>
TBool == <<"bool", "">>
TDictBare == <<"dict", "">>
TListBare == <<"list", "">>
TListOf(args) == <<"List", args>>
TDictOf(args) == <<"Dict", args>>
TTupleOf(args) == <<"Tuple", args>>
TUnionOf(args) == <<"Union", args>>
\* a pydantic BaseModel subclass: its name, its fields, and whether
\* model_json_schema() succeeds on it
TModel(name, fields, ok) == <<"Model", <<name, fields, ok>>>>
TClass(name) == <<"class", name>>
TOther(repr) == <<"other", repr>>

TypeObject == JDict(<< <<"type", JStr("object")>> >>)
TypeArray == JDict(<< <<"type", JStr("array")>> >>)
TypeAny == JDict(<< <<"type", JStr("any")>> >>)

\* typ.model_json_schema() of a flat model: properties, required, title, type
model_json_schema(name, fields) ==
    LET props == [i \in 1..Len(fields) |->
                    <<fields[i].name, JDict(<< <<"type", JStr(fields[i].prim)>> >>)>>]
        req == SelectSeq(fields, LAMBDA f : ~f.has_default)
        reqnames == [i \in 1..Len(req) |-> JStr(req[i].name)]
        base == << <<"properties", JDict(props)>> >>
        withreq == IF reqnames = <<>> THEN base
                   ELSE Append(base, <<"required", JList(reqnames)>>)
    IN  JDict(withreq \o << <<"title", JStr(name)>>, <<"type", JStr("object")>> >>)

\* schema["nullable"] = True, the variant that leaves the mark out
mark_nullable_dropped(schema) == schema

\* schema["nullable"] = True
mark_nullable(schema) == DictSet(schema, "nullable", JBool(TRUE))

RECURSIVE python_type_to_json_schema(_)
python_type_to_json_schema(typ) ==
    LET tag == typ[1]
        args == typ[2]
    IN
    CASE tag \in {"empty", "None"} -> TypeAny
      [] tag = "Model" ->
            IF args[3] THEN model_json_schema(args[1], args[2])
            ELSE JDict(<< <<"type", JStr("object")>>,
                          <<"description", JStr(args[1])>> >>)
      [] tag = "NoneType" -> JDict(<< <<"type", JStr("null")>> >>)
      [] tag = "Union" ->
            LET non_none_args == SelectSeq(args, LAMBDA a : a # TNoneType)
            IN  IF Len(non_none_args) = 1
                THEN mark_nullable(python_type_to_json_schema(non_none_args[1]))
                ELSE JDict(<< <<"anyOf",
                                JList([i \in 1..Len(args) |->
                                         python_type_to_json_schema(args[i])])>> >>)
      [] tag = "List" ->
            IF args # <<>>
            THEN JDict(<< <<"type", JStr("array")>>,
                          <<"items", python_type_to_json_schema(args[1])>> >>)
            ELSE TypeArray
      [] tag = "Dict" ->
            IF Len(args) >= 2
            THEN DictSet(TypeObject, "additionalProperties",
                         python_type_to_json_schema(args[2]))
            ELSE TypeObject
      [] tag = "Tuple" ->
            IF args # <<>>
            THEN JDict(<< <<"type", JStr("array")>>,
                          <<"items", JList([i \in 1..Len(args) |->
                                              python_type_to_json_schema(args[i])])>>,
                          <<"minItems", JInt(Len(args))>>,
                          <<"maxItems", JInt(Len(args))>> >>)
            ELSE TypeArray
      [] tag = "str" -> JDict(<< <<"type", JStr("string")>> >>)
      [] tag = "int" -> JDict(<< <<"type", JStr("integer")>> >>)
      [] tag = "float" -> JDict(<< <<"type", JStr("number")>> >>)
      [] tag = "bool" -> JDict(<< <<"type", JStr("boolean")>> >>)
      [] tag = "dict" -> TypeObject
      [] tag = "list" -> TypeArray
      [] tag = "class" ->
            JDict(<< <<"type", JStr("object")>>, <<"description", JStr(args)>> >>)
      [] OTHER ->
            JDict(<< <<"type", JStr("any")>>, <<"description", JStr(args)>> >>)

(***************************************************************************)
(* A function as the decorator sees it: func.__module__, func.__qualname__ *)
(* (dotted paths, kept as their segments), inspect.signature(func) as      *)
(* params and ret, inspect.getdoc(func) as doc.                            *)
(***************************************************************************)
Param(name, ann, has_default, default) ==
    [name |-> name, ann |-> ann, has_default |-> has_default, default |-> default]

\* the input half of extract_signature, the variant that sorts the required
\* names
extract_input_schema_sorted_required(func) ==
    LET declared == SelectSeq(func.params, LAMBDA p : p.name # "self")
        input_properties ==
            [i \in 1..Len(declared) |->
                <<declared[i].name, python_type_to_json_schema(declared[i].ann)>>]
        req == SelectSeq(declared, LAMBDA p : ~p.has_default)
        required_params ==
            LET sorted == SortedByKey([i \in 1..Len(req) |->
                                         <<req[i].name, JStr(req[i].name)>>])
            IN  [i \in 1..Len(sorted) |-> sorted[i][2]]
        base == JDict(<< <<"type", JStr("object")>>,
                         <<"properties", JDict(input_properties)>> >>)
    IN  IF required_params # <<>>
        THEN DictSet(base, "required", JList(required_params))
        ELSE base

\* SignatureManager.extract_signature: (input_schema, output_schema)
extract_input_schema(func) ==
    LET declared == SelectSeq(func.params, LAMBDA p : p.name # "self")
        input_properties ==
            [i \in 1..Len(declared) |->
                <<declared[i].name, python_type_to_json_schema(declared[i].ann)>>]
        req == SelectSeq(declared, LAMBDA p : ~p.has_default)
        required_params == [i \in 1..Len(req) |-> JStr(req[i].name)]
        base == JDict(<< <<"type", JStr("object")>>,
                         <<"properties", JDict(input_properties)>> >>)
    IN  IF required_params # <<>>
        THEN DictSet(base, "required", JList(required_params))
        ELSE base

\* the output half of extract_signature, the variant that tests the type only
extract_output_schema_wrap_unions(func) ==
    LET output_schema == python_type_to_json_schema(func.ret)
        is_object == DictHas(output_schema, "type")
                     /\ DictGet(output_schema, "type") = JStr("object")
    IN  IF ~is_object
        THEN JDict(<< <<"type", JStr("object")>>,
                      <<"properties", JDict(<< <<"result", output_schema>> >>)>> >>)
        ELSE output_schema

extract_output_schema(func) ==
    LET output_schema == python_type_to_json_schema(func.ret)
        is_object == DictHas(output_schema, "type")
                     /\ DictGet(output_schema, "type") = JStr("object")
    IN  IF ~is_object /\ ~DictHas(output_schema, "anyOf")
        THEN JDict(<< <<"type", JStr("object")>>,
                      <<"properties", JDict(<< <<"result", output_schema>> >>)>> >>)
        ELSE output_schema

extract_signature(func) == <<extract_input_schema(func), extract_output_schema(func)>>

\* SignatureManager.compute_hash, the variant that leaves the name out
compute_hash_without_name(input_schema, output_schema, function_name) ==
    sha256_hexdigest(json_dumps_sorted(
        JDict(<< <<"input", input_schema>>, <<"output", output_schema>> >>)))

\* SignatureManager.compute_hash, the variant that leaves the output schema out
compute_hash_input_only(input_schema, output_schema, function_name) ==
    sha256_hexdigest(json_dumps_sorted(
        JDict(<< <<"function_name", JStr(function_name)>>,
                 <<"input", input_schema>> >>)))

\* SignatureManager.compute_hash, the variant without sort_keys
compute_hash_unsorted(input_schema, output_schema, function_name) ==
    sha256_hexdigest(json_dumps_unsorted(
        JDict(<< <<"function_name", JStr(function_name)>>,
                 <<"input", input_schema>>,
                 <<"output", output_schema>> >>)))

\* SignatureManager.compute_hash
compute_hash(input_schema, output_schema, function_name) ==
    sha256_hexdigest(json_dumps_sorted(
        JDict(<< <<"function_name", JStr(function_name)>>,
                 <<"input", input_schema>>,
                 <<"output", output_schema>> >>)))

\* f"{func.__module__}.{func.__qualname__}": the dotted string, segment by segment
scoped_function_name(func) == func.module \o func.qualname

\* SignatureManager.extract_signature_object
extract_signature_object(func, function_name, description, now) ==
    LET schemas == extract_signature(func)
    IN  [signature_hash |-> compute_hash(schemas[1], schemas[2], function_name),
         input_schema |-> schemas[1],
         output_schema |-> schemas[2],
         created_at |-> now,
         function_name |-> function_name,
         description |-> description]

(***************************************************************************)
(* Python run-time values that reach a wrapped function: <<tag, payload>>. *)
(* A "ref" is a list object held by reference, so that a list can contain  *)
(* itself; Heap gives the items of each such list.                         *)
(***************************************************************************)
PNone == <<"None", 0>>
PInt(n) == <<"int", n>>
PStr(s) == <<"str", s>>
PList(items) == <<"list", items>>
PTuple(items) == <<"tuple", items>>
PDict(pairs) == <<"dict", pairs>>
\* an instance of a pydantic BaseModel, with its fields
PModel(pairs) == <<"model", pairs>>
\* an instance of an arbitrary class (the receiver of a method)
PObj(id) == <<"obj", id>>
PRef(id) == <<"ref", id>>

\* l = []; l.append(l)
Heap(id) == << PRef(id) >>

\* exceptions, by class name
Exc(name) == <<"exc", name>>
RecursionError == Exc("RecursionError")

IsExc(v) == v[1] = "exc"

\* the first exception among the results of a comprehension, if any
FirstExc(items) ==
    LET bad == {i \in 1..Len(items) : IsExc(items[i])}
    IN  IF bad = {} THEN <<>> ELSE <<items[CHOOSE i \in bad : \A j \in bad : i <= j]>>

(***************************************************************************)
(* _serialize_value.  Every nested call takes a stack frame; depth is the  *)
(* number of frames left before the interpreter raises RecursionError.     *)
(***************************************************************************)
RECURSIVE serialize_at(_, _)
RECURSIVE serialize_items(_, _)

\* [_serialize_value(item) for item in items]: left to right, the first
\* exception ends the comprehension
serialize_items(items, depth) ==
    IF items = <<>> THEN PList(<<>>)
    ELSE LET first == serialize_at(Head(items), depth)
         IN  IF IsExc(first) THEN first
             ELSE LET rest == serialize_items(Tail(items), depth)
                  IN  IF IsExc(rest) THEN rest
                      ELSE PList(<<first>> \o rest[2])

serialize_at(value, depth) ==
    IF depth = 0 THEN RecursionError
    ELSE
    CASE value[1] = "model" -> PDict(value[2])
      [] value[1] = "list" -> serialize_items(value[2], depth - 1)
      [] value[1] = "ref" -> serialize_items(Heap(value[2]), depth - 1)
      [] value[1] = "dict" ->
            LET vals == serialize_items([i \in 1..Len(value[2]) |-> value[2][i][2]],
                                        depth - 1)
            IN  IF IsExc(vals) THEN vals
                ELSE PDict([i \in 1..Len(value[2]) |-> <<value[2][i][1], vals[2][i]>>])
      [] value[1] = "tuple" -> serialize_items(value[2], depth - 1)
      [] OTHER -> value

\* _serialize_value, the variant that hands tuples back as they are
serialize_keep_tuple(value) ==
    IF value[1] = "tuple" THEN value ELSE serialize_at(value, RecursionLimit)

serialize_value(value) == serialize_at(value, RecursionLimit)

\* what json.dumps accepts of a serialized value
RECURSIVE JsonSerializable(_)
JsonSerializable(value) ==
    CASE value[1] \in {"None", "int", "str"} -> TRUE
      [] value[1] \in {"list", "tuple"} ->
            \A i \in 1..Len(value[2]) : JsonSerializable(value[2][i])
      [] value[1] = "dict" ->
            \A i \in 1..Len(value[2]) : JsonSerializable(value[2][i][2])
      [] OTHER -> FALSE

(***************************************************************************)
(* inspect.Signature.bind of the call's arguments, then apply_defaults():  *)
(* every parameter is positional-or-keyword.  kwargs is the sequence of    *)
(* <<name, value>> pairs of the call.                                      *)
(***************************************************************************)
KwNames(kwargs) == {kwargs[i][1] : i \in 1..Len(kwargs)}

KwGet(kwargs, name) ==
    kwargs[CHOOSE i \in 1..Len(kwargs) : kwargs[i][1] = name][2]

BindOk(params, args, kwargs) ==
    /\ Len(args) <= Len(params)
    /\ \A k \in KwNames(kwargs) :
          \E i \in 1..Len(params) : params[i].name = k /\ i > Len(args)
    /\ \A i \in 1..Len(params) :
          \/ i <= Len(args)
          \/ params[i].name \in KwNames(kwargs)
          \/ params[i].has_default

\* bound.arguments after apply_defaults(), in parameter order
BoundArguments(params, args, kwargs) ==
    [i \in 1..Len(params) |->
        <<params[i].name,
          IF i <= Len(args) THEN args[i]
          ELSE IF params[i].name \in KwNames(kwargs)
               THEN KwGet(kwargs, params[i].name)
               ELSE params[i].default>>]

(***************************************************************************)
(* BlackboxFunction._build_input_dict.  The result is <<"ok", input_dict>> *)
(* or <<"raise", exception>> when the fallback itself fails.               *)
(***************************************************************************)
ArgKey(i) == << "arg0", "arg1", "arg2", "arg3" >>[i + 1]

RECURSIVE PutAll(_, _)
PutAll(d, pairs) ==
    IF pairs = <<>> THEN d
    ELSE PutAll(DictSet(d, pairs[1][1], pairs[1][2]), Tail(pairs))

\* the entries written before the first one that raised
RECURSIVE UntilExc(_)
UntilExc(pairs) ==
    IF pairs = <<>> \/ IsExc(pairs[1][2]) THEN <<>>
    ELSE <<pairs[1]>> \o UntilExc(Tail(pairs))

InputFromBinding(params, args, kwargs, skip) ==
    LET bound == BoundArguments(params, args, kwargs)
        kept == SelectSeq(bound, LAMBDA a : a[1] \notin skip)
    IN  [i \in 1..Len(kept) |-> <<kept[i][1], serialize_value(kept[i][2])>>]

\* the except branch of _build_input_dict, the variant that counts from one
InputFromFallbackFromOne(args, kwargs) ==
    [i \in 1..Len(args) |-> <<ArgKey(i), serialize_value(args[i])>>]
    \o [i \in 1..Len(kwargs) |-> <<kwargs[i][1], serialize_value(kwargs[i][2])>>]

InputFromFallback(args, kwargs) ==
    [i \in 1..Len(args) |-> <<ArgKey(i - 1), serialize_value(args[i])>>]
    \o [i \in 1..Len(kwargs) |-> <<kwargs[i][1], serialize_value(kwargs[i][2])>>]

BuildInputSkipping(params, args, kwargs, skip) ==
    LET bind_ok == BindOk(params, args, kwargs)
        tried == IF bind_ok THEN InputFromBinding(params, args, kwargs, skip) ELSE <<>>
        try_ok == bind_ok /\ \A i \in 1..Len(tried) : ~IsExc(tried[i][2])
        fallback == InputFromFallback(args, kwargs)
        fb_exc == FirstExc([i \in 1..Len(fallback) |-> fallback[i][2]])
    IN  IF try_ok THEN <<"ok", PutAll(PDict(<<>>), tried)>>
        ELSE IF fb_exc # <<>> THEN <<"raise", fb_exc[1]>>
        ELSE <<"ok", PutAll(PutAll(PDict(<<>>), UntilExc(tried)), fallback)>>

\* _build_input_dict, the variant that skips no parameter
build_input_dict_keep_self(params, args, kwargs) ==
    BuildInputSkipping(params, args, kwargs, {})

build_input_dict(params, args, kwargs) ==
    BuildInputSkipping(params, args, kwargs, {"self"})

(***************************************************************************)
(* The program under the dispatcher: four declarations that get decorated. *)
(* wraps_any marks a function that accepts any arguments while             *)
(* inspect.signature reports the parameters of the function it wraps       *)
(* (functools.wraps), so that sig.bind can fail on a call that succeeds.   *)
(***************************************************************************)
FuncDef(module, qualname, params, ret, is_async, doc, is_method, wraps_any) ==
    [module |-> module, qualname |-> qualname, params |-> params, ret |-> ret,
     is_async |-> is_async, doc |-> doc, is_method |-> is_method,
     wraps_any |-> wraps_any]

\* def f(x: int, y: int = 1) -> int
FnPlain ==
    FuncDef(<<"app">>, <<"f">>,
            << Param("x", TInt, FALSE, PNone), Param("y", TInt, TRUE, PInt(1)) >>,
            TInt, FALSE, JStr("doc f"), FALSE, FALSE)

\* async def g(x: int) -> tuple[int]
FnAsync ==
    FuncDef(<<"app">>, <<"g">>,
            << Param("x", TInt, FALSE, PNone) >>,
            TTupleOf(<<TInt>>), TRUE, JNull, FALSE, FALSE)

\* class A: def m(self, x: int) -> dict, under a functools.wraps decorator
FnMethod ==
    FuncDef(<<"app">>, <<"A", "m">>,
            << Param("self", TEmpty, FALSE, PNone), Param("x", TInt, FALSE, PNone) >>,
            TDictBare, FALSE, JStr("doc m"), TRUE, TRUE)

\* class B: def m(this, x: int) -> dict
FnThis ==
    FuncDef(<<"app">>, <<"B", "m">>,
            << Param("this", TEmpty, FALSE, PNone), Param("x", TInt, FALSE, PNone) >>,
            TDictBare, FALSE, JNull, TRUE, FALSE)

Funcs == << FnPlain, FnAsync, FnMethod, FnThis >>

Receivers == {PObj(1), PObj(2)}

TupleValue == PTuple(<<PInt(2)>>)
CyclicList == PRef(1)

ArgLists == { <<TupleValue>>, <<CyclicList>>, <<PInt(1), PInt(2)>> }
KwLists == { <<>>, << <<"y", PInt(2)>> >> }
RetValues == { TupleValue, CyclicList }

Keys == {"bbc_proj_1"}
DEFAULT_API_SERVER == "https://blackbox-backend-u2gu.onrender.com"
ApiServerArgs == {"None", "http://localhost:9000"}

\* what httpx.post and the lines after it can do
PostOutcomes == {"ok", "http_status_error", "request_error", "other_error"}

NoVal == <<"none", 0>>

\* the id of a span the caller may have made current around a call; 0: none
AmbientSpans == {0, 9}

\* trace.get_current_span() and the reads after it: they work, or raise
LookupOutcomes == {"ok", "raises"}

VARIABLES
    config_initialized,  \* config._initialized
    project_key,         \* config._project_key
    api_server,          \* config._api_server
    provider,            \* the installed tracer provider: "noop" or "sdk"
    wrappers,            \* the BlackboxFunction objects, in decoration order
    clock,               \* datetime.now(), one tick per reading
    ncalls,              \* calls of wrapped functions started so far
    cur,                 \* the call in progress (or the last one finished)
    sink,                \* the delivery attempts httpx.post has seen, in order:
                         \* the call each came from, and whether it was accepted
    returned,            \* the calls that returned a value to their caller, in order
    decl_a,              \* a declaration that gets decorated, and
    decl_b,              \* another one
    sig_a,               \* <<>>, or <<the Signature of decl_a's first decoration>>
    sig_a2,              \* the same for a second, separate decoration of decl_a
    sig_b,               \* the same for the decoration of decl_b
    rehash,              \* <<>>, or <<the hash of sig_a's schemas, their keys reordered>>
    edit,                \* how decl_b was made from decl_a: "none", or the edit
    handles,             \* the callables that attribute accesses to wrapped methods
                         \* have returned and the program still holds
    values,              \* further values the program passes to and returns from
                         \* its functions, beside ArgLists and RetValues
    twice,               \* the wrappers that were decorated a second time
    stack,               \* the calls that wait, inside their original function, for
                         \* a wrapped function it has called: outermost first
    parked,              \* the calls in progress on the threads or tasks that are
                         \* not running now
    completions,         \* the calls whose original coroutine has returned, in the
                         \* order in which they returned
    otel                 \* otel_setup: the module's globals, the process's tracer
                         \* provider and handlers, and where each thread is

\* the variables of the decoration experiment; no call reads or writes them
declVars == <<decl_a, decl_b, sig_a, sig_a2, sig_b, rehash, edit>>

\* what the call dispatcher leaves alone
\* the variables of the other experiments; the call dispatcher, the
\* decorator and attribute access leave them alone
auxVars == <<values, twice, stack, parked, completions, otel>>

outsideCalls == <<declVars, handles, auxVars>>

vars == <<config_initialized, project_key, api_server, provider, wrappers,
          clock, ncalls, cur, sink, returned, declVars, handles, auxVars>>

NoEdit == [kind |-> "none"]

\* a call made on the spot, o.m(...), keeps no handle
NoHandle == [w |-> 0, via |-> PNone, bound |-> <<>>]

\* no span, or the span of the no-op tracer: its context is not valid
NoSpan == [valid |-> FALSE, trace_id |-> 0, span_id |-> 0, parent |-> 0]

\* otel_setup.py as it is after import: the three flags False, the lock
\* free, no tracer provider set, no handler registered, no thread inside
\* initialize_otel and no handler running
OtelStart ==
    [initialized |-> FALSE,
     shutdown_registered |-> FALSE,
     shutdown_complete |-> FALSE,
     lock |-> 0,
     tracer_provider |-> "proxy",
     foreign |-> "none",
     created |-> 0,
     installed |-> 0,
     atexit_handlers |-> 0,
     sigterm_handlers |-> 0,
     sigint_handlers |-> 0,
     flushes |-> 0,
     shutdowns |-> 0,
     completed |-> FALSE,
     failures |-> 0,
     inits |-> 0,
     signals |-> 0,
     exited |-> FALSE,
     pc |-> [t \in 1..MaxThreads |-> "out"],
     running |-> <<>>]

IdleFrame ==
    [pc |-> "idle", w |-> 0, call |-> 0, handle |-> NoHandle, configured |-> FALSE,
     args |-> <<>>, kwargs |-> <<>>,
     recv |-> NoVal, ambient |-> 0, span |-> NoSpan, lookup |-> "none", fout |-> NoVal, output_data |-> NoVal,
     input_dict |-> NoVal, output_dict |-> NoVal, payload |-> <<>>,
     outcome |-> "none", sent |-> <<>>, result |-> NoVal, f_runs |-> 0, f_suspends |-> 0,
     task_yields |-> 0, suspended |-> FALSE, span_ended |-> FALSE, inner |-> <<>>]

DispatcherInit ==
    /\ config_initialized = FALSE
    /\ project_key = "None"
    /\ api_server = DEFAULT_API_SERVER
    /\ provider = "noop"
    /\ wrappers = <<>>
    /\ clock = 0
    /\ ncalls = 0
    /\ cur = IdleFrame
    /\ sink = <<>>
    /\ returned = <<>>
    /\ handles = {}

CallsInit ==
    /\ DispatcherInit
    /\ values = {}
    /\ twice = {}
    /\ stack = <<>>
    /\ parked = {}
    /\ completions = <<>>
    /\ otel = OtelStart

\* no decoration experiment
DeclInit ==
    /\ decl_a = FnPlain
    /\ decl_b = FnPlain
    /\ sig_a = <<>>
    /\ sig_a2 = <<>>
    /\ sig_b = <<>>
    /\ rehash = <<>>
    /\ edit = NoEdit

Init ==
    /\ CallsInit
    /\ DeclInit

(***************************************************************************)
(* config.set_config and blackbox.init                                     *)
(***************************************************************************)
set_config(key, server_arg) ==
    /\ project_key' = key
    /\ api_server' = IF server_arg # "None" THEN server_arg ELSE api_server
    /\ config_initialized' = TRUE

\* the program has one thread: between two calls, or inside the original
\* function, is where it can run anything else
CallerRuns == cur.pc \in {"idle", "created", "invoke", "done"}

SetConfig ==
    \E key \in Keys, server_arg \in ApiServerArgs :
        /\ CallerRuns
        /\ set_config(key, server_arg)
        /\ UNCHANGED <<outsideCalls, provider, wrappers, clock, ncalls, cur, sink, returned>>

\* init(): set_config, then initialize_otel(), which installs the SDK
\* tracer provider unless its try block fails
InitSdk ==
    \E key \in Keys, server_arg \in ApiServerArgs, otel_ok \in BOOLEAN :
        /\ CallerRuns
        /\ set_config(key, server_arg)
        /\ provider' = IF otel_ok THEN "sdk" ELSE provider
        /\ UNCHANGED <<outsideCalls, wrappers, clock, ncalls, cur, sink, returned>>

(***************************************************************************)
(* The decorator.                                                          *)
(***************************************************************************)
\* a BlackboxFunction object, as against a plain function
IsWrapper(callable) == "signature" \in DOMAIN callable

\* what following __wrapped__ ends at: inspect.signature reads the
\* parameters there, and __module__, __qualname__ and __doc__ were copied
\* from there
RECURSIVE inspect_unwrap(_)
inspect_unwrap(callable) ==
    IF IsWrapper(callable) THEN inspect_unwrap(callable.func) ELSE callable

\* asyncio.iscoroutinefunction: a BlackboxFunction object is none
iscoroutinefunction(callable) ==
    IF IsWrapper(callable) THEN FALSE ELSE callable.is_async

\* functools.update_wrapper, the variant that copies the assigned names only
update_wrapper_assigned_only(wrapper, wrapped) == wrapper

\* functools.update_wrapper(self, func): the names of WRAPPER_ASSIGNMENTS
\* are read back from func on demand (instance_attributes); then
\* self.__dict__.update(func.__dict__), which for a plain function adds
\* nothing and for a BlackboxFunction overwrites the five attributes that
\* __init__ has just assigned
update_wrapper(wrapper, wrapped) ==
    IF IsWrapper(wrapped)
    THEN [wrapper EXCEPT !.func = wrapped.func,
                         !.function_name = wrapped.function_name,
                         !.signature = wrapped.signature,
                         !.is_async = wrapped.is_async,
                         !.sig = wrapped.sig]
    ELSE wrapper

blackbox(func, now) ==
    LET declared == inspect_unwrap(func)
        function_name == scoped_function_name(declared)
        description == declared.doc
    IN  update_wrapper(
            [func |-> func,
             function_name |-> function_name,
             signature |-> extract_signature_object(declared, function_name,
                                                    description, now),
             is_async |-> iscoroutinefunction(func),
             sig |-> declared.params],
            func)

\* the attributes of a BlackboxFunction object: the five that __init__
\* assigns, then those functools.update_wrapper copies from the function
\* (WRAPPER_ASSIGNMENTS; a plain function's own __dict__ is empty) and
\* __wrapped__
instance_attributes(wrapper) ==
    << <<"func", wrapper.func>>,
       <<"function_name", wrapper.function_name>>,
       <<"signature", wrapper.signature>>,
       <<"is_async", wrapper.is_async>>,
       <<"sig", wrapper.sig>>,
       <<"__module__", wrapper.func.module>>,
       <<"__name__", wrapper.func.qualname[Len(wrapper.func.qualname)]>>,
       <<"__qualname__", wrapper.func.qualname>>,
       <<"__doc__", wrapper.func.doc>>,
       <<"__wrapped__", wrapper.func>> >>

\* getattr(wrapper, name): the class defines no __getattr__ and no property
getattr(wrapper, name) ==
    LET attrs == instance_attributes(wrapper)
        at == {i \in 1..Len(attrs) : attrs[i][1] = name}
    IN  IF at = {} THEN <<"raise", Exc("AttributeError")>>
        ELSE <<"ok", attrs[CHOOSE i \in at : TRUE][2]>>

AllDecorated == Len(wrappers) = Len(Funcs)

Decorate ==
    /\ ~AllDecorated
    /\ wrappers' = Append(wrappers, blackbox(Funcs[Len(wrappers) + 1], clock))
    /\ clock' = clock + 1
    /\ UNCHANGED <<outsideCalls, config_initialized, project_key, api_server, provider,
                   ncalls, cur, sink, returned>>

(***************************************************************************)
(* Tracing: the span that start_as_current_span makes current for a call,  *)
(* and _get_trace_context, which reads it back as hex strings.             *)
(***************************************************************************)
\* the no-op tracer yields a span with an invalid context; the SDK tracer a
\* root span with fresh ids (the call number stands for the random ids)
\* a span the caller has made current before the call (ambient # 0) becomes
\* the parent of the call's span, which then belongs to its trace
\* tracer.start_as_current_span, the variant that ignores the current span
start_span_detached(call, current) ==
    IF provider = "sdk"
    THEN [valid |-> TRUE, trace_id |-> call, span_id |-> call, parent |-> 0]
    ELSE NoSpan

\* tracer.start_as_current_span while the span current is the current one
\* (NoSpan: none)
start_span_under(call, current) ==
    IF provider = "sdk"
    THEN IF current.valid
         THEN [valid |-> TRUE, trace_id |-> current.trace_id, span_id |-> call,
               parent |-> current.span_id]
         ELSE [valid |-> TRUE, trace_id |-> call, span_id |-> call, parent |-> 0]
    ELSE NoSpan

\* the span the caller has made current: a root span of its own trace
AmbientSpan(ambient) ==
    IF ambient # 0
    THEN [valid |-> TRUE, trace_id |-> ambient, span_id |-> ambient, parent |-> 0]
    ELSE NoSpan

start_as_current_span(call, ambient) == start_span_under(call, AmbientSpan(ambient))

\* leaving the with block, the variant that ends the span on a return only
span_exit_on_return(frame) ==
    IF frame.pc = "done" /\ frame.result[1] = "ret"
    THEN [frame EXCEPT !.span_ended = TRUE]
    ELSE frame

\* the with block of _sync_call and _async_call: whichever way control
\* leaves it, with a value or an exception, the context manager ends the span
span_exit(frame) ==
    IF frame.pc = "done" THEN [frame EXCEPT !.span_ended = TRUE] ELSE frame

Hex(width, n) == <<"hex", <<width, n>>>>

\* _get_trace_context, the variant that does not ask is_valid
get_trace_context_unchecked(span, lookup) ==
    IF lookup = "raises" THEN << PNone, PNone, PNone >>
    ELSE << Hex(32, span.trace_id), Hex(16, span.span_id),
            IF span.parent # 0 THEN Hex(16, span.parent) ELSE PNone >>

\* lookup = "raises": something inside the try block raised
get_trace_context(span, lookup) ==
    IF lookup = "ok" /\ span.valid
    THEN << Hex(32, span.trace_id), Hex(16, span.span_id),
            IF span.parent # 0 THEN Hex(16, span.parent) ELSE PNone >>
    ELSE << PNone, PNone, PNone >>

(***************************************************************************)
(* BlackboxFunction.__get__ and __call__                                   *)
(***************************************************************************)
\* __get__, the variant that hands back the wrapper itself for instances too
descriptor_get_unbound(obj) == <<>>

\* the arguments functools.partial(self.__call__, obj) puts in front
descriptor_get(obj) == IF obj = PNone THEN <<>> ELSE <<obj>>

\* what the original function can do with these arguments
FuncOutcomes(func, args, kwargs) ==
    IF ~func.wraps_any /\ ~BindOk(func.params, args, kwargs)
    THEN { <<"raise", Exc("TypeError")>> }
    ELSE { <<"ret", v>> : v \in RetValues \cup values }
            \cup { <<"raise", Exc("ValueError")>> }

\* __call__: a sync function is run at once under its span (_sync_call); for
\* an async function the coroutine object of _async_call is returned unstarted
CallOf(ws, arglists, kwlists, ambients) ==
    \E w \in ws, args \in arglists, kwargs \in kwlists,
       obj \in Receivers \cup {PNone}, ambient \in ambients :
        /\ AllDecorated
        /\ ambient # 0 => provider = "sdk"
        /\ cur.pc \in {"idle", "done"}
        /\ stack = <<>>
        /\ ncalls < MaxCalls
        /\ (obj # PNone) <=> wrappers[w].func.is_method
        /\ ncalls' = ncalls + 1
        /\ cur' = [IdleFrame EXCEPT
                     !.pc = IF wrappers[w].is_async THEN "created" ELSE "invoke",
                     !.w = w,
                     !.call = ncalls + 1,
                     !.configured = config_initialized,
                     !.args = descriptor_get(obj) \o args,
                     !.kwargs = kwargs,
                     !.recv = obj,
                     !.ambient = ambient,
                     !.span = IF wrappers[w].is_async THEN NoSpan
                              ELSE start_as_current_span(ncalls + 1, ambient),
                     !.f_runs = IF wrappers[w].is_async THEN 0 ELSE 1]
        /\ UNCHANGED <<outsideCalls, config_initialized, project_key, api_server, provider,
                       wrappers, clock, sink, returned>>

Call ==
    CallOf(1..Len(wrappers), ArgLists \cup {<<v>> : v \in values}, KwLists,
           AmbientSpans)

\* awaiting the coroutine: _async_call opens the span and awaits _execute_async,
\* which awaits the original coroutine
Await ==
    /\ cur.pc = "created"
    /\ cur' = [cur EXCEPT !.pc = "invoke",
                          !.span = start_as_current_span(cur.call, cur.ambient),
                          !.f_runs = cur.f_runs + 1]
    /\ UNCHANGED <<outsideCalls, config_initialized, project_key, api_server, provider,
                   wrappers, clock, ncalls, sink, returned>>

\* the original coroutine awaits something that is not ready: the suspension
\* passes through _execute_async and _async_call to the event loop
FuncSuspend ==
    /\ cur.pc = "invoke"
    /\ wrappers[cur.w].is_async
    /\ ~cur.suspended
    /\ cur.f_suspends < MaxSuspend
    /\ cur' = [cur EXCEPT !.suspended = TRUE,
                          !.f_suspends = cur.f_suspends + 1,
                          !.task_yields = cur.task_yields + 1]
    /\ UNCHANGED <<outsideCalls, config_initialized, project_key, api_server, provider,
                   wrappers, clock, ncalls, sink, returned>>

FuncResume ==
    /\ cur.pc = "invoke"
    /\ cur.suspended
    /\ cur' = [cur EXCEPT !.suspended = FALSE]
    /\ UNCHANGED <<outsideCalls, config_initialized, project_key, api_server, provider,
                   wrappers, clock, ncalls, sink, returned>>

\* where control goes when CancelledError comes out of the awaited original,
\* the variant that catches it and goes on to the capture
OnCancelledCapture == "emit"

\* CancelledError is a BaseException: no handler of _execute_async or
\* _async_call catches it, and the span's context manager re-raises it
OnCancelled == "done"

\* the caller cancels the task while the original coroutine is suspended:
\* the event loop throws CancelledError into it at its await, and the
\* original lets it propagate, as asyncio asks of a coroutine
Cancel ==
    /\ cur.pc = "invoke"
    /\ cur.suspended
    /\ cur' = span_exit([cur EXCEPT !.pc = OnCancelled,
                                    !.suspended = FALSE,
                                    !.fout = <<"raise", Exc("CancelledError")>>,
                                    !.result = <<"raise", Exc("CancelledError")>>])
    /\ UNCHANGED <<outsideCalls, config_initialized, project_key, api_server, provider,
                   wrappers, clock, ncalls, sink, returned>>

(***************************************************************************)
(* BlackboxFunction._execute_sync / _execute_async, statement by statement *)
(***************************************************************************)
\* where control goes when self.func raises: out of the wrapper
OnFuncRaiseCapture == "emit"

OnFuncRaise == "done"

\* output_data = <the value>: the frame goes on to the capture
original_returns(frame, o) ==
    [frame EXCEPT !.pc = "bind", !.fout = o, !.output_data = o[2]]

\* output_data = self.func(...) returns
FuncReturns ==
    /\ cur.pc = "invoke"
    /\ ~cur.suspended
    /\ \E o \in FuncOutcomes(wrappers[cur.w].func, cur.args, cur.kwargs) :
          /\ o[1] = "ret"
          /\ cur' = original_returns(cur, o)
    /\ UNCHANGED <<outsideCalls, config_initialized, project_key, api_server, provider,
                   wrappers, clock, ncalls, sink, returned>>

\* self.func(...) raises: the exception leaves _execute_* and the span
FuncRaises ==
    /\ cur.pc = "invoke"
    /\ ~cur.suspended
    /\ \E o \in FuncOutcomes(wrappers[cur.w].func, cur.args, cur.kwargs) :
          /\ o[1] = "raise"
          /\ cur' = span_exit([cur EXCEPT !.pc = OnFuncRaise, !.fout = o, !.result = o])
    /\ UNCHANGED <<outsideCalls, config_initialized, project_key, api_server, provider,
                   wrappers, clock, ncalls, sink, returned>>

\* input_dict = self._build_input_dict(...)
BuildInput ==
    /\ cur.pc = "bind"
    /\ LET r == build_input_dict(wrappers[cur.w].sig, cur.args, cur.kwargs)
       IN  cur' = IF r[1] = "ok"
                  THEN [cur EXCEPT !.pc = "serialize", !.input_dict = r[2]]
                  ELSE span_exit([cur EXCEPT !.pc = "done", !.result = r])
    /\ UNCHANGED <<outsideCalls, config_initialized, project_key, api_server, provider,
                   wrappers, clock, ncalls, sink, returned>>

\* output_dict = _serialize_value(output_data)
SerializeOutput ==
    /\ cur.pc = "serialize"
    /\ LET out == serialize_value(cur.output_data)
       IN  cur' = IF IsExc(out)
                  THEN span_exit([cur EXCEPT !.pc = "done", !.result = <<"raise", out>>])
                  ELSE [cur EXCEPT !.pc = "emit", !.output_dict = out]
    /\ UNCHANGED <<outsideCalls, config_initialized, project_key, api_server, provider,
                   wrappers, clock, ncalls, sink, returned>>

(***************************************************************************)
(* capture_example -> save_example -> send_example                         *)
(***************************************************************************)
\* config.get_project_key, the variant that hands back the unset key
get_project_key_unchecked == <<"ok", project_key>>

\* config.get_project_key
get_project_key ==
    IF ~config_initialized THEN <<"raise", Exc("RuntimeError")>>
    ELSE <<"ok", project_key>>

\* the payload send_example posts, from capture_example's arguments
ExamplePayload(key, function_name, signature, input_data, output_data, timestamp, tc) ==
    [project_key |-> key,
     signature_hash |-> signature.signature_hash,
     function_name |-> function_name,
     input_schema |-> signature.input_schema,
     output_schema |-> signature.output_schema,
     description |-> signature.description,
     input |-> input_data,
     output |-> output_data,
     timestamp |-> <<"isoformat", timestamp>>,
     otel_trace_id |-> tc[1],
     otel_span_id |-> tc[2],
     parent_span_id |-> tc[3]]

\* the signature capture_example reads the payload's identity from, the
\* variant that takes the first wrapper's
capture_signature_of_first(w) == wrappers[1].signature

capture_signature(w) == wrappers[w].signature

\* json=payload: a value json.dumps rejects raises inside httpx.post
PostOutcomesFor(payload) ==
    IF JsonSerializable(payload.input) /\ JsonSerializable(payload.output)
    THEN PostOutcomes
    ELSE {"other_error"}

\* response = httpx.post(...), the variant that posts again after a failure
http_post_retrying(log, call, outcome) ==
    IF outcome = "ok" THEN Append(log, [call |-> call, ok |-> TRUE])
    ELSE log \o << [call |-> call, ok |-> FALSE], [call |-> call, ok |-> FALSE] >>

\* response = httpx.post(...): one request, whatever comes of it
http_post(log, call, outcome) ==
    Append(log, [call |-> call, ok |-> outcome = "ok"])

\* the try block of send_example, the variant that lets RequestError out
post_result_reraise(outcome) ==
    IF outcome = "request_error" THEN <<"raise", Exc("RequestError")>>
    ELSE <<"return", outcome = "ok">>

\* the try block of send_example: True after a 2xx answer, False from each
\* of the three except clauses
post_result(outcome) == <<"return", outcome = "ok">>

\* trace ids, capture_example(...): one delivery attempt, where the span
\* lookup ends in one of lookups and the request in one of outcomes
EmitWith(lookups, outcomes) ==
    /\ cur.pc = "emit"
    /\ clock' = clock + 1
    /\ \E lookup \in lookups :
       LET tc == get_trace_context(cur.span, lookup)
           key == get_project_key
       IN  IF key[1] = "raise"
           THEN /\ cur' = span_exit([cur EXCEPT !.pc = "done", !.lookup = lookup,
                                               !.result = key])
                /\ sink' = sink
           ELSE LET payload == ExamplePayload(key[2], wrappers[cur.w].function_name,
                                              capture_signature(cur.w),
                                              cur.input_dict, cur.output_dict,
                                              clock, tc)
                IN  \E outcome \in PostOutcomesFor(payload) \cap outcomes :
                       LET r == post_result(outcome)
                       IN  /\ sink' = http_post(sink, cur.call, outcome)
                           /\ cur' = IF r[1] = "return"
                                     THEN [cur EXCEPT !.pc = "return",
                                                      !.lookup = lookup,
                                                      !.payload = <<payload>>,
                                                      !.outcome = outcome,
                                                      !.sent = <<r[2]>>]
                                     ELSE span_exit([cur EXCEPT !.pc = "done",
                                                      !.lookup = lookup,
                                                      !.payload = <<payload>>,
                                                      !.outcome = outcome,
                                                      !.result = r])
    /\ UNCHANGED <<outsideCalls, config_initialized, project_key, api_server, provider,
                   wrappers, ncalls, returned>>

Emit == EmitWith(LookupOutcomes, PostOutcomes)

\* return output_data, the variant that returns the serialized copy
execute_result_serialized(frame) == frame.output_dict

\* return output_data
execute_result(frame) == frame.output_data

Return ==
    /\ cur.pc = "return"
    /\ cur' = span_exit([cur EXCEPT !.pc = "done",
                                    !.result = <<"ret", execute_result(cur)>>])
    /\ returned' = Append(returned, cur.call)
    /\ UNCHANGED <<outsideCalls, config_initialized, project_key, api_server, provider,
                   wrappers, clock, ncalls, sink>>

Next ==
    \/ SetConfig
    \/ InitSdk
    \/ Decorate
    \/ Call
    \/ Await
    \/ FuncSuspend
    \/ FuncResume
    \/ Cancel
    \/ FuncReturns
    \/ FuncRaises
    \/ BuildInput
    \/ SerializeOutput
    \/ Emit
    \/ Return

Spec == Init /\ [][Next]_vars

(***************************************************************************)
(* Properties of the call dispatcher, checked under Spec.                  *)
(***************************************************************************)
Finished == cur.pc = "done"

CurIsAsync == cur.w # 0 /\ wrappers[cur.w].is_async

DeliveryFailed ==
    cur.outcome \in {"http_status_error", "request_error", "other_error"}

\* C1: with the SDK configured, a finished call of a wrapped synchronous
\* function gave its caller exactly the outcome of the original function:
\* the value it returned, or the exception it raised, and nothing else.
C1_SyncCallTransparent ==
    (Finished /\ cur.configured /\ ~CurIsAsync) => cur.result = cur.fout

\* C2: calling a wrapped asynchronous function starts nothing; awaiting it
\* runs the original once, the awaiting task yields exactly as often as the
\* original suspends, and (with the SDK configured) the await ends with the
\* outcome of the original.
C2_AsyncCallTransparent ==
    CurIsAsync =>
        /\ cur.pc = "created" => cur.f_runs = 0
        /\ cur.pc # "created" => cur.f_runs = 1
        /\ cur.task_yields = cur.f_suspends
        /\ (Finished /\ cur.configured) => cur.result = cur.fout

\* C3: when the original function raised, the caller got that exception and
\* the sink saw no delivery attempt from that call.
C3_NoCaptureWhenOriginalRaises ==
    (cur.fout[1] = "raise") =>
        /\ Finished
        /\ cur.result = cur.fout
        /\ cur.payload = <<>>
        /\ \A i \in 1..Len(sink) : sink[i].call # cur.call

C3_Witness ==
    /\ Finished
    /\ CurIsAsync
    /\ cur.call = 2
    /\ cur.fout = <<"raise", Exc("ValueError")>>
    /\ Len(sink) = 1

\* C4: a delivery that failed (HTTP error status, network error, any other
\* exception around the post) became the result False inside the SDK, and the
\* call went on to return the original function's value to its caller.
C4_DeliveryFailureSwallowed ==
    DeliveryFailed =>
        /\ cur.pc \in {"return", "done"}
        /\ cur.sent = <<FALSE>>
        /\ Finished => (cur.result = cur.fout /\ cur.fout[1] = "ret")

C4_Witness ==
    /\ Finished
    /\ cur.outcome = "request_error"
    /\ cur.result = <<"ret", TupleValue>>
    /\ Len(sink) = 2
    /\ \A i \in 1..Len(sink) : ~sink[i].ok

\* C5: a finished call raised the configuration error exactly when the SDK
\* was never initialised while the call ran: every call made with the SDK
\* uninitialised ends in RuntimeError, and no call made with the SDK
\* initialised does.
C5_ConfigErrorExactlyWhenUninitialised ==
    Finished =>
        /\ ~config_initialized => cur.result = <<"raise", Exc("RuntimeError")>>
        /\ cur.configured => cur.result # <<"raise", Exc("RuntimeError")>>

\* C6: the delivery attempts the sink has seen are, in order, exactly the
\* calls that returned to their caller (plus the call that has just posted
\* and is about to return): one attempt each, none twice, in call order.
C6_OneAttemptPerReturnedCall ==
    LET attempts == [i \in 1..Len(sink) |-> sink[i].call]
    IN  /\ attempts = IF cur.pc = "return" THEN Append(returned, cur.call)
                      ELSE returned
        /\ \A i, j \in 1..Len(attempts) : i < j => attempts[i] < attempts[j]

C6_Witness ==
    /\ Finished
    /\ Len(sink) = 2
    /\ ~sink[1].ok
    /\ returned = <<1, 2>>
    /\ ncalls = 2

\* the hash of each declaration, computed from the declaration alone
DecorationHash ==
    [w \in 1..Len(Funcs) |->
        compute_hash(extract_input_schema(Funcs[w]),
                     extract_output_schema(Funcs[w]),
                     scoped_function_name(Funcs[w]))]

\* C7: the payload of every delivery attempt carries the hash, scope name,
\* schemas and description of the Signature of the wrapper that was called,
\* and every wrapper's Signature is still the one its decoration computed.
C7_PayloadCarriesSignature ==
    /\ cur.payload # <<>> =>
          LET p == cur.payload[1]
              sg == wrappers[cur.w].signature
          IN  /\ p.signature_hash = sg.signature_hash
              /\ p.function_name = sg.function_name
              /\ p.input_schema = sg.input_schema
              /\ p.output_schema = sg.output_schema
              /\ p.description = sg.description
    /\ \A w \in 1..Len(wrappers) :
          LET sg == wrappers[w].signature
          IN  /\ wrappers[w].func = Funcs[w]
              /\ sg.function_name = scoped_function_name(Funcs[w])
              /\ sg.signature_hash = DecorationHash[w]

C7_Witness ==
    /\ Finished
    /\ cur.payload # <<>>
    /\ cur.w = 3
    /\ cur.call = 2
    /\ Len(sink) = 2

\* C8: the captured input of a call made through an instance holds no entry
\* whose value is the receiver.
C8_NoReceiverInCapturedInput ==
    (cur.recv # PNone /\ cur.input_dict # NoVal) =>
        \A i \in 1..Len(cur.input_dict[2]) : cur.input_dict[2][i][2] # cur.recv

(***************************************************************************)
(* Decoration on its own: two declarations drawn from a small space of     *)
(* modules, qualified names and parameter lists are decorated, the first   *)
(* one twice, and the hash of the first is computed again over the same    *)
(* schemas with the keys of every dict inserted in another order.          *)
(***************************************************************************)
Modules == { <<"a">>, <<"a", "b">> }

Qualnames == { <<"f">>, <<"C", "f">>, <<"D", "f">>, <<"b", "C", "f">> }

ParamLists ==
    { << Param("query", TStr, FALSE, PNone) >>,
      << Param("self", TEmpty, FALSE, PNone),
         Param("query", TStr, FALSE, PNone),
         Param("context", TUnionOf(<<TStr, TNoneType>>), TRUE, PNone) >> }

ReturnTypes == { TDictOf(<<TStr, TInt>>) }

DeclSpace ==
    { FuncDef(m, q, ps, r, FALSE, JNull, Len(q) > 1, FALSE) :
        m \in Modules, q \in Qualnames, ps \in ParamLists, r \in ReturnTypes }

\* the same document built with its keys inserted in another order
ReorderSchemes == {"reverse", "rotate"}

Reordered(pairs, scheme) ==
    IF scheme = "reverse"
    THEN [i \in 1..Len(pairs) |-> pairs[Len(pairs) + 1 - i]]
    ELSE [i \in 1..Len(pairs) |-> pairs[(i % Len(pairs)) + 1]]

RECURSIVE ReorderKeys(_, _)
ReorderKeys(v, scheme) ==
    CASE v[1] = "dict" ->
            JDict(Reordered([i \in 1..Len(v[2]) |->
                               <<v[2][i][1], ReorderKeys(v[2][i][2], scheme)>>],
                            scheme))
      [] v[1] = "list" ->
            JList([i \in 1..Len(v[2]) |-> ReorderKeys(v[2][i], scheme)])
      [] OTHER -> v

SigInit ==
    /\ CallsInit
    /\ decl_a \in DeclSpace
    /\ decl_b \in DeclSpace
    /\ sig_a = <<>>
    /\ sig_a2 = <<>>
    /\ sig_b = <<>>
    /\ rehash = <<>>
    /\ edit = NoEdit

callVars == <<config_initialized, project_key, api_server, provider, wrappers,
              ncalls, cur, sink, returned, auxVars>>

\* @blackbox on decl_a
DecorateA ==
    /\ sig_a = <<>>
    /\ sig_a' = << blackbox(decl_a, clock).signature >>
    /\ clock' = clock + 1
    /\ UNCHANGED <<callVars, edit, handles, decl_a, decl_b, sig_a2, sig_b, rehash>>

\* blackbox(decl_a) applied a second time, separately, to the same function
DecorateAAgain ==
    /\ sig_a # <<>>
    /\ sig_a2 = <<>>
    /\ sig_a2' = << blackbox(decl_a, clock).signature >>
    /\ clock' = clock + 1
    /\ UNCHANGED <<callVars, edit, handles, decl_a, decl_b, sig_a, sig_b, rehash>>

\* @blackbox on decl_b
DecorateB ==
    /\ sig_b = <<>>
    /\ sig_b' = << blackbox(decl_b, clock).signature >>
    /\ clock' = clock + 1
    /\ UNCHANGED <<callVars, edit, handles, decl_a, decl_b, sig_a, sig_a2, rehash>>

\* compute_hash over sig_a's schemas, rebuilt with another key order
RehashReordered ==
    /\ sig_a # <<>>
    /\ rehash = <<>>
    /\ \E scheme \in ReorderSchemes :
          LET input_schema == ReorderKeys(sig_a[1].input_schema, scheme)
              output_schema == ReorderKeys(sig_a[1].output_schema, scheme)
          IN  rehash' = << [input_schema |-> input_schema,
                            output_schema |-> output_schema,
                            signature_hash |->
                                compute_hash(input_schema, output_schema,
                                             sig_a[1].function_name)] >>
    /\ UNCHANGED <<callVars, edit, handles, clock, decl_a, decl_b, sig_a, sig_a2, sig_b>>

SigNext ==
    \/ DecorateA
    \/ DecorateAAgain
    \/ DecorateB
    \/ RehashReordered

SpecSig == SigInit /\ [][SigNext]_vars

(***************************************************************************)
(* Properties of the scope name and the signature hash, under SpecSig.     *)
(***************************************************************************)
LocalName(func) == func.qualname[Len(func.qualname)]

\* the enclosing classes and functions of a declaration, outermost first
EnclosingPath(func) == SubSeq(func.qualname, 1, Len(func.qualname) - 1)

BothDecorated == sig_a # <<>> /\ sig_b # <<>>

SameSchemas ==
    /\ sig_a[1].input_schema = sig_b[1].input_schema
    /\ sig_a[1].output_schema = sig_b[1].output_schema

SameLocalNameOtherClasses ==
    /\ LocalName(decl_a) = LocalName(decl_b)
    /\ EnclosingPath(decl_a) # <<>>
    /\ EnclosingPath(decl_b) # <<>>
    /\ EnclosingPath(decl_a) # EnclosingPath(decl_b)

ScopeNameIsModuleThenQualname ==
    /\ sig_a # <<>> => sig_a[1].function_name = decl_a.module \o decl_a.qualname
    /\ sig_b # <<>> => sig_b[1].function_name = decl_b.module \o decl_b.qualname

\* C9 as stated: the scope name is the module path followed by the qualified
\* path, and two functions with the same local name in different enclosing
\* classes have different scope names and different signature hashes.
C9_DifferentClassesDifferentScope ==
    /\ ScopeNameIsModuleThenQualname
    /\ (BothDecorated /\ SameLocalNameOtherClasses) =>
          /\ sig_a[1].function_name # sig_b[1].function_name
          /\ sig_a[1].signature_hash # sig_b[1].signature_hash

\* Within one module the dotted name keeps the two apart: same local name,
\* different enclosing paths, same module => different names and hashes.
SameModuleScopesDiffer ==
    /\ ScopeNameIsModuleThenQualname
    /\ (BothDecorated /\ SameLocalNameOtherClasses
        /\ decl_a.module = decl_b.module) =>
          /\ sig_a[1].function_name # sig_b[1].function_name
          /\ sig_a[1].signature_hash # sig_b[1].signature_hash

SameModuleScopesDiffer_Witness ==
    /\ BothDecorated
    /\ decl_a.module = decl_b.module
    /\ decl_a.qualname = <<"C", "f">>
    /\ decl_b.qualname = <<"D", "f">>
    /\ SameSchemas
    /\ sig_a[1].signature_hash # sig_b[1].signature_hash

\* C10: two separate decorations of one function, and two declarations with
\* the same scope name and schemas, get the same hash; schemas that differ
\* only in the insertion order of their keys hash equal; every hash is a
\* SHA-256 digest rendered as 64 lowercase hex characters.
C10_HashDeterministic ==
    /\ (sig_a # <<>> /\ sig_a2 # <<>>) =>
          sig_a[1].signature_hash = sig_a2[1].signature_hash
    /\ (BothDecorated /\ SameSchemas
        /\ sig_a[1].function_name = sig_b[1].function_name) =>
          sig_a[1].signature_hash = sig_b[1].signature_hash
    /\ rehash # <<>> => rehash[1].signature_hash = sig_a[1].signature_hash
    /\ \A sg \in Range(sig_a) \cup Range(sig_a2) \cup Range(sig_b) :
          /\ sg.signature_hash.hex_len = 64
          /\ sg.signature_hash.lowercase

C10_Witness ==
    /\ sig_a # <<>>
    /\ sig_a2 # <<>>
    /\ sig_a[1].created_at # sig_a2[1].created_at
    /\ rehash # <<>>
    /\ rehash[1].input_schema # sig_a[1].input_schema
    /\ rehash[1].output_schema # sig_a[1].output_schema
    /\ Len(decl_a.params) = 3

(***************************************************************************)
(* A declaration and an edited copy of it under the same scope name: one   *)
(* edit of the source text (a parameter renamed, retyped, given or denied  *)
(* a default, added or removed, or the return type changed), then both     *)
(* versions are decorated.                                                 *)
(***************************************************************************)
\* def f(query: str, context: Dict[str, int] = ...) -> Dict[str, int]
EditBaseMapping ==
    FuncDef(<<"app">>, <<"f">>,
            << Param("query", TStr, FALSE, PNone),
               Param("context", TDictOf(<<TStr, TInt>>), TRUE, PNone) >>,
            TDictOf(<<TStr, TInt>>), FALSE, JNull, FALSE, FALSE)

\* class S: def f(self, x, y: int = 1) -> None
EditBaseMethod ==
    FuncDef(<<"app">>, <<"S", "f">>,
            << Param("self", TEmpty, FALSE, PNone),
               Param("x", TEmpty, FALSE, PNone),
               Param("y", TInt, TRUE, PInt(1)) >>,
            TNone, FALSE, JNull, TRUE, FALSE)

\* def f(x: Optional[int]) -> List[int]
EditBaseOptional ==
    FuncDef(<<"app">>, <<"f">>,
            << Param("x", TUnionOf(<<TInt, TNoneType>>), FALSE, PNone) >>,
            TListOf(<<TInt>>), FALSE, JNull, FALSE, FALSE)

\* def f() -> int
EditBaseNoParams ==
    FuncDef(<<"app">>, <<"f">>, <<>>, TInt, FALSE, JNull, FALSE, FALSE)

EditBases == {EditBaseMapping, EditBaseMethod, EditBaseOptional, EditBaseNoParams}

EditNames == {"query", "x", "self", "extra"}

EditTypes ==
    { TEmpty, TNone, TInt, TStr, TDictBare, TDictOf(<<>>),
      TDictOf(<<TStr, TInt>>), TDictOf(<<TInt, TInt>>),
      TListBare, TListOf(<<>>), TListOf(<<TInt>>), TTupleOf(<<>>),
      TUnionOf(<<TInt, TNoneType>>), TUnionOf(<<TInt, TStr>>), TClass("Reply"),
      TModel("Out", << [name |-> "x", prim |-> "integer", has_default |-> FALSE] >>, TRUE),
      TModel("Out", << [name |-> "x", prim |-> "integer", has_default |-> FALSE] >>, FALSE) }

ParamNamesOf(params) == {params[i].name : i \in 1..Len(params)}

\* what the compiler accepts: distinct names, no parameter without a default
\* after one with a default
ValidParams(params) ==
    /\ \A i, j \in 1..Len(params) : i # j => params[i].name # params[j].name
    /\ \A i, j \in 1..Len(params) :
          (i < j /\ params[i].has_default) => params[j].has_default

EditInit ==
    /\ CallsInit
    /\ decl_a \in EditBases
    /\ decl_b = decl_a
    /\ sig_a = <<>>
    /\ sig_a2 = <<>>
    /\ sig_b = <<>>
    /\ rehash = <<>>
    /\ edit = NoEdit

\* decl_b becomes decl_a with its parameter list replaced
EditParams(params, what) ==
    /\ edit = NoEdit
    /\ sig_b = <<>>
    /\ ValidParams(params)
    /\ decl_b' = [decl_a EXCEPT !.params = params]
    /\ edit' = what
    /\ UNCHANGED <<callVars, clock, handles, decl_a, sig_a, sig_a2, sig_b, rehash>>

RenameParam ==
    \E i \in 1..Len(decl_a.params), name \in EditNames :
        /\ name # decl_a.params[i].name
        /\ EditParams([decl_a.params EXCEPT ![i].name = name],
                      [kind |-> "rename", old |-> decl_a.params[i].name, new |-> name])

RetypeParam ==
    \E i \in 1..Len(decl_a.params), typ \in EditTypes :
        /\ typ # decl_a.params[i].ann
        /\ EditParams([decl_a.params EXCEPT ![i].ann = typ],
                      [kind |-> "retype", name |-> decl_a.params[i].name,
                       old |-> decl_a.params[i].ann, new |-> typ])

ToggleDefault ==
    \E i \in 1..Len(decl_a.params) :
        EditParams([decl_a.params EXCEPT ![i].has_default = ~@],
                   [kind |-> "required", name |-> decl_a.params[i].name])

AddParam ==
    \E i \in 0..Len(decl_a.params), name \in EditNames, typ \in {TEmpty, TInt},
       has_default \in BOOLEAN :
        EditParams(SubSeq(decl_a.params, 1, i)
                     \o << Param(name, typ, has_default, PNone) >>
                     \o SubSeq(decl_a.params, i + 1, Len(decl_a.params)),
                   [kind |-> "add", name |-> name])

RemoveParam ==
    \E i \in 1..Len(decl_a.params) :
        EditParams(RemoveAt(decl_a.params, i),
                   [kind |-> "remove", name |-> decl_a.params[i].name])

RetypeReturn ==
    \E typ \in EditTypes :
        /\ edit = NoEdit
        /\ sig_b = <<>>
        /\ typ # decl_a.ret
        /\ decl_b' = [decl_a EXCEPT !.ret = typ]
        /\ edit' = [kind |-> "return", old |-> decl_a.ret, new |-> typ]
        /\ UNCHANGED <<callVars, clock, handles, decl_a, sig_a, sig_a2, sig_b, rehash>>

\* @blackbox on the edited declaration
DecorateEdited ==
    /\ edit # NoEdit
    /\ DecorateB

EditNext ==
    \/ RenameParam
    \/ RetypeParam
    \/ ToggleDefault
    \/ AddParam
    \/ RemoveParam
    \/ RetypeReturn
    \/ DecorateA
    \/ DecorateEdited

SpecEdit == EditInit /\ [][EditNext]_vars

(***************************************************************************)
(* Sensitivity of the hash to an edit of the declaration, under SpecEdit.  *)
(***************************************************************************)
EditDecorated == edit # NoEdit /\ sig_a # <<>> /\ sig_b # <<>>

HashChanged == sig_a[1].signature_hash # sig_b[1].signature_hash

TouchesSelf ==
    \/ edit.kind \in {"retype", "required", "add", "remove"} /\ edit.name = "self"
    \/ edit.kind = "rename" /\ "self" \in {edit.old, edit.new}

\* the edit replaces a type by one that translates to the same schema
SameTranslation ==
    /\ edit.kind \in {"retype", "return"}
    /\ python_type_to_json_schema(edit.old) = python_type_to_json_schema(edit.new)

DeclaredParams(func) == IF func.is_method THEN Tail(func.params) ELSE func.params

\* C12: the input schema of every decorated function is an object schema
\* whose properties are, name by name, the translations of its declared
\* parameters without the receiver, and whose required list names exactly
\* the parameters without a default (and is absent when there are none).
C12_InputSchemaIsDeclaredParams ==
    \A w \in 1..Len(wrappers) :
        LET declared == DeclaredParams(wrappers[w].func)
            schema == wrappers[w].signature.input_schema
            needed == SelectSeq(declared, LAMBDA p : ~p.has_default)
        IN  /\ DictGet(schema, "type") = JStr("object")
            /\ DictGet(schema, "properties") =
                  JDict([i \in 1..Len(declared) |->
                           <<declared[i].name,
                             python_type_to_json_schema(declared[i].ann)>>])
            /\ IF needed = <<>> THEN ~DictHas(schema, "required")
               ELSE DictGet(schema, "required") =
                       JList([i \in 1..Len(needed) |-> JStr(needed[i].name)])

(***************************************************************************)
(* Properties of the output schema, under SpecEdit: the declared return    *)
(* type ranges over the bases' own and over EditTypes.                     *)
(***************************************************************************)
IsObjectSchema(schema) ==
    DictHas(schema, "type") /\ DictGet(schema, "type") = JStr("object")

\* a record: an object schema with a properties map
IsRecordSchema(schema) == IsObjectSchema(schema) /\ DictHas(schema, "properties")

IsUnionSchema(schema) == DictHas(schema, "anyOf")

ResultRecord(schema) ==
    JDict(<< <<"type", JStr("object")>>,
             <<"properties", JDict(<< <<"result", schema>> >>)>> >>)

\* the decorations made so far, each with the declaration it was made from
Decorations ==
    {<<decl_a, sig_a[i]>> : i \in 1..Len(sig_a)}
        \cup {<<decl_b, sig_b[i]>> : i \in 1..Len(sig_b)}

C14_OutputFieldAddressable ==
    \A d \in Decorations : IsRecordSchema(d[2].output_schema)

(***************************************************************************)
(* Properties of the wrapper objects and of the call steps, under Spec.    *)
(***************************************************************************)
\* C15: at every moment, before and after calls, every wrapper answers
\* __name__, __doc__, function_name, signature_hash and signature with the
\* original's name and documentation, the scope name, and the hash and the
\* Signature of its decoration.
C15_IntrospectionAttributes ==
    \A w \in 1..Len(wrappers) :
        LET wrapper == wrappers[w]
            func == Funcs[w]
        IN  /\ getattr(wrapper, "__name__") = <<"ok", func.qualname[Len(func.qualname)]>>
            /\ getattr(wrapper, "__doc__") = <<"ok", func.doc>>
            /\ getattr(wrapper, "function_name") = <<"ok", scoped_function_name(func)>>
            /\ getattr(wrapper, "signature") = <<"ok", wrapper.signature>>
            /\ getattr(wrapper, "signature_hash")
                  = <<"ok", wrapper.signature.signature_hash>>

\* the same without the hash as an attribute of its own: it is read through
\* the Signature
IntrospectionThroughSignature ==
    \A w \in 1..Len(wrappers) :
        LET wrapper == wrappers[w]
            func == Funcs[w]
        IN  /\ getattr(wrapper, "__name__") = <<"ok", func.qualname[Len(func.qualname)]>>
            /\ getattr(wrapper, "__doc__") = <<"ok", func.doc>>
            /\ getattr(wrapper, "function_name") = <<"ok", scoped_function_name(func)>>
            /\ getattr(wrapper, "signature")[1] = "ok"
            /\ getattr(wrapper, "signature")[2].signature_hash =
                  compute_hash(extract_input_schema(func),
                               extract_output_schema(func),
                               scoped_function_name(func))

(***************************************************************************)
(* Attribute access kept apart from the call: c = o.m now, c(...) later.   *)
(* A handle is what one access returned: the wrapper it came from and the  *)
(* arguments functools.partial holds in front (none when the access went   *)
(* through the class and returned the wrapper itself).  Two partials of    *)
(* the same wrapper and instance behave alike and are one handle here.     *)
(***************************************************************************)
HandleArgLists == { <<PInt(1)>>, <<PInt(1), PInt(2)>> }

\* o.m or A.m, for a wrapper that is a class attribute
GetAttr ==
    \E w \in 1..Len(wrappers), obj \in Receivers \cup {PNone} :
        /\ AllDecorated
        /\ cur.pc \in {"idle", "done"}
        /\ wrappers[w].func.is_method
        /\ Cardinality(handles) < MaxHandles
        /\ handles' = handles \cup {[w |-> w, via |-> obj,
                                      bound |-> descriptor_get(obj)]}
        /\ UNCHANGED <<declVars, auxVars, config_initialized, project_key, api_server,
                       provider, wrappers, clock, ncalls, cur, sink, returned>>

\* c(*a, **k) on a handle; on the wrapper itself the caller passes the
\* receiver as the first argument: A.m(o, *a, **k)
CallHandle ==
    \E h \in handles, args \in HandleArgLists, kwargs \in {<<>>},
       explicit \in Receivers :
        LET w == h.w
            obj == IF h.via = PNone THEN explicit ELSE h.via
            front == IF h.via = PNone THEN <<explicit>> ELSE h.bound
        IN  /\ cur.pc \in {"idle", "done"}
            /\ ncalls < MaxCalls
            /\ ncalls' = ncalls + 1
            /\ cur' = [IdleFrame EXCEPT
                         !.pc = "invoke",
                         !.w = w,
                         !.call = ncalls + 1,
                         !.handle = h,
                         !.configured = config_initialized,
                         !.args = front \o args,
                         !.kwargs = kwargs,
                         !.recv = obj,
                         !.span = start_as_current_span(ncalls + 1, 0),
                         !.f_runs = 1]
            /\ UNCHANGED <<outsideCalls, config_initialized, project_key, api_server,
                           provider, wrappers, clock, sink, returned>>

BindNext ==
    \/ Decorate
    \/ SetConfig
    \/ GetAttr
    \/ CallHandle
    \/ FuncReturns
    \/ FuncRaises
    \/ BuildInput
    \/ SerializeOutput
    \/ Emit
    \/ Return

SpecBind == Init /\ [][BindNext]_vars

(***************************************************************************)
(* Properties of attribute access, under SpecBind.                         *)
(***************************************************************************)
\* C16: accesses build no wrapper (there is one per declaration, whatever
\* the number of instances); an access through the class returned the
\* wrapper itself and one through an instance o a callable holding o in
\* front; and every call made on a handle runs the wrapper the access went
\* to, on the caller's arguments preceded by the receiver: the instance the
\* handle was accessed through.
C16_ReceiverBoundPerAccess ==
    /\ Len(wrappers) <= Len(Funcs)
    /\ \A h \in handles :
          /\ h.w \in 1..Len(wrappers)
          /\ wrappers[h.w].func = Funcs[h.w]
          /\ h.bound = IF h.via = PNone THEN <<>> ELSE <<h.via>>
    /\ cur.handle # NoHandle =>
          /\ cur.handle \in handles
          /\ cur.w = cur.handle.w
          /\ cur.args # <<>>
          /\ cur.args[1] = cur.recv
          /\ cur.args[1] \in Receivers
          /\ Tail(cur.args) \in HandleArgLists
          /\ cur.handle.via # PNone => cur.args[1] = cur.handle.via

\* c1 = o1.m; c2 = o2.m; c2(...); c1(...): the second call still runs on o1
C16_Witness ==
    /\ \E h1, h2 \in handles : h1.w = h2.w /\ h1.via = PObj(1) /\ h2.via = PObj(2)
    /\ cur.call = 2
    /\ cur.handle.via = PObj(1)
    /\ cur.args[1] = PObj(1)
    /\ cur.pc = "done"
    /\ returned = <<1, 2>>

(***************************************************************************)
(* Properties of the steps of a call, under Spec.                          *)
(***************************************************************************)
Cancelled == cur.fout = <<"raise", Exc("CancelledError")>>

\* C17: an asynchronous call cancelled while the original coroutine was
\* suspended ends at once with CancelledError at the caller, with no capture
\* built and no delivery attempt made for it.
C17_CancelledCallNotCaptured ==
    Cancelled =>
        /\ Finished
        /\ cur.result = <<"raise", Exc("CancelledError")>>
        /\ cur.input_dict = NoVal
        /\ cur.output_dict = NoVal
        /\ cur.payload = <<>>
        /\ \A i \in 1..Len(sink) : sink[i].call # cur.call

C17_Witness ==
    /\ Cancelled
    /\ CurIsAsync
    /\ cur.call = 2
    /\ cur.configured
    /\ cur.f_suspends = 1
    /\ Len(sink) = 1

\* the original function has been entered by this call
Invoked == cur.f_runs > 0

\* C18: the steps of a call come in the order BIND_ARGS, INVOKE, SERIALIZE,
\* EMIT, RETURN: once the original has been entered the captured input is
\* already bound; the output is serialized and the payload emitted only
\* after the original returned; and the value goes back to the caller only
\* after the emission.
C18_StepOrder ==
    /\ Invoked => cur.input_dict # NoVal
    /\ cur.output_dict # NoVal => (cur.fout[1] = "ret" /\ cur.input_dict # NoVal)
    /\ cur.payload # <<>> => cur.output_dict # NoVal
    /\ cur.result[1] = "ret" =>
          /\ cur.payload # <<>>
          /\ \E i \in 1..Len(sink) : sink[i].call = cur.call

\* the order the code has: INVOKE, BIND_ARGS, SERIALIZE, EMIT, RETURN
StepOrderInvokeFirst ==
    /\ cur.input_dict # NoVal => cur.fout[1] = "ret"
    /\ cur.output_dict # NoVal => (cur.fout[1] = "ret" /\ cur.input_dict # NoVal)
    /\ cur.payload # <<>> => cur.output_dict # NoVal
    /\ cur.result[1] = "ret" =>
          /\ cur.payload # <<>>
          /\ \E i \in 1..Len(sink) : sink[i].call = cur.call

\* inspect.Signature.bind rejects the arguments of the current call
BindFailed ==
    cur.w # 0 /\ ~BindOk(wrappers[cur.w].sig, cur.args, cur.kwargs)

\* C19: when the arguments do not bind to the declared parameters, the
\* captured input is {arg0: ..., arg1: ..., <keyword>: ...} with every value
\* serialized, the call goes on to emit and return, and no binding error
\* (TypeError) reaches the caller of a call whose original returned.
C19_BindFailureFallsBack ==
    BindFailed =>
        /\ cur.input_dict # NoVal =>
              cur.input_dict =
                 PDict([i \in 1..Len(cur.args) |->
                          <<ArgKey(i - 1), serialize_value(cur.args[i])>>]
                       \o [i \in 1..Len(cur.kwargs) |->
                             <<cur.kwargs[i][1], serialize_value(cur.kwargs[i][2])>>])
        /\ (cur.fout[1] = "ret" /\ Finished) =>
              cur.result # <<"raise", Exc("TypeError")>>
        /\ (cur.fout[1] = "ret" /\ Finished
            /\ (\A i \in 1..Len(cur.args) : ~IsExc(serialize_value(cur.args[i])))
            /\ (\A j \in 1..Len(cur.kwargs) :
                   ~IsExc(serialize_value(cur.kwargs[j][2])))
            /\ ~IsExc(serialize_value(cur.output_data))
            /\ cur.configured) =>
              cur.result = cur.fout

C19_Witness ==
    /\ BindFailed
    /\ Finished
    /\ cur.args = <<PObj(1), PInt(1), PInt(2)>>
    /\ cur.kwargs = << <<"y", PInt(2)>> >>
    /\ cur.input_dict = PDict(<< <<"arg0", PObj(1)>>, <<"arg1", PInt(1)>>,
                                 <<"arg2", PInt(2)>>, <<"y", PInt(2)>> >>)
    /\ cur.result = <<"ret", TupleValue>>

\* C20: a capture made while the current span is not valid, or while the
\* lookup of the span failed, carries no trace_id, span_id or
\* parent_span_id, and its call returns the original's value; in every
\* capture trace_id and span_id are both there or both missing, and
\* parent_span_id is there only when they are.
C20_TraceContextAllOrNone ==
    cur.payload # <<>> =>
        LET p == cur.payload[1]
        IN  /\ (~cur.span.valid \/ cur.lookup = "raises") =>
                  /\ p.otel_trace_id = PNone
                  /\ p.otel_span_id = PNone
                  /\ p.parent_span_id = PNone
                  /\ cur.pc \in {"return", "done"}
                  /\ Finished => cur.result = cur.fout
            /\ (p.otel_trace_id = PNone) <=> (p.otel_span_id = PNone)
            /\ p.parent_span_id # PNone =>
                  (p.otel_trace_id # PNone /\ p.otel_span_id # PNone)
            /\ (cur.span.valid /\ cur.lookup = "ok") =>
                  /\ p.otel_trace_id = Hex(32, cur.span.trace_id)
                  /\ p.otel_span_id = Hex(16, cur.span.span_id)

\* the second call runs inside a valid span whose lookup raises: its capture
\* has no ids and the call still returns the original's value
C20_Witness ==
    /\ Finished
    /\ cur.payload # <<>>
    /\ cur.call = 2
    /\ cur.span.valid
    /\ cur.lookup = "raises"
    /\ cur.payload[1].otel_trace_id = PNone
    /\ cur.result = <<"ret", TupleValue>>
    /\ Len(sink) = 2

\* a capture made under an ambient span carries that span as its parent
C20_WitnessParent ==
    /\ cur.payload # <<>>
    /\ cur.payload[1].parent_span_id = Hex(16, 9)
    /\ cur.payload[1].otel_trace_id = Hex(32, 9)

\* a capture made under the no-op tracer: no valid span, no ids
C20_WitnessNoSpan ==
    /\ Finished
    /\ cur.payload # <<>>
    /\ ~cur.span.valid
    /\ cur.lookup = "ok"
    /\ cur.result = <<"ret", TupleValue>>

(***************************************************************************)
(* Serialization on its own: the program passes one more value, drawn from *)
(* SerValues, to its functions and returns it from them.                   *)
(***************************************************************************)
\* class Out(BaseModel): a: int = 1
ModelValue == PModel(<< <<"a", PInt(1)>> >>)

SerValues ==
    { ModelValue,
      PStr("s"),
      PObj(1),
      PList(<< PInt(1), PTuple(<<PInt(2), PInt(3)>>) >>),
      PTuple(<< ModelValue, PInt(1) >>),
      PDict(<< <<"b", PTuple(<<PInt(1)>>)>>, <<"a", ModelValue>> >>) }

SerInit ==
    /\ DispatcherInit
    /\ DeclInit
    /\ values \in {{v} : v \in SerValues}
    /\ twice = {}
    /\ stack = <<>>
    /\ parked = {}
    /\ completions = <<>>
    /\ otel = OtelStart

\* a call that passes the value
CallWithValue == CallOf(1..Len(wrappers), {<<v>> : v \in values}, {<<>>}, {0})

SerNext ==
    \/ Decorate
    \/ SetConfig
    \/ CallWithValue
    \/ FuncReturns
    \/ BuildInput
    \/ SerializeOutput
    \/ Emit
    \/ Return

SpecSer == SerInit /\ [][SerNext]_vars

(***************************************************************************)
(* Properties of serialization, under SpecSer.                             *)
(***************************************************************************)
\* out is the plain tree the description of serialization asks for value:
\* a model's fields as a mapping, a list or tuple as the list of its
\* serialized elements in order, a mapping with its keys and serialized
\* values, anything else itself.  No tree is that of a list holding itself.
RECURSIVE IsSerializationOf(_, _)
IsSerializationOf(out, value) ==
    CASE value[1] = "model" -> out = PDict(value[2])
      [] value[1] \in {"list", "tuple"} ->
            /\ out[1] = "list"
            /\ Len(out[2]) = Len(value[2])
            /\ \A i \in 1..Len(value[2]) : IsSerializationOf(out[2][i], value[2][i])
      [] value[1] = "dict" ->
            /\ out[1] = "dict"
            /\ Len(out[2]) = Len(value[2])
            /\ \A i \in 1..Len(value[2]) :
                  /\ out[2][i][1] = value[2][i][1]
                  /\ IsSerializationOf(out[2][i][2], value[2][i][2])
      [] value[1] = "ref" -> FALSE
      [] OTHER -> out = value

\* the captured input entry of the parameter the value was passed for
PassedAsX ==
    /\ cur.w # 0
    /\ Len(cur.args) = 1
    /\ cur.kwargs = <<>>
    /\ ~wrappers[cur.w].func.is_method

\* C22: the serialized output of a call is the plain tree of the value the
\* original returned, and the captured input entry that of the argument
\* passed (models as field mappings, lists and tuples as lists in order,
\* mappings key by key, everything else unchanged); the call's arguments and
\* the returned value are left as they were, and the caller gets the
\* original value, not its serialized form.
C22_SerializationShape ==
    /\ cur.output_dict # NoVal => IsSerializationOf(cur.output_dict, cur.output_data)
    /\ (cur.input_dict # NoVal /\ PassedAsX) =>
          IsSerializationOf(DictGet(cur.input_dict, "x"), cur.args[1])
    /\ cur.output_data # NoVal => cur.output_data = cur.fout[2]
    /\ cur.result[1] = "ret" => cur.result[2] = cur.fout[2]

C22_Witness ==
    /\ Finished
    /\ values = { PDict(<< <<"b", PTuple(<<PInt(1)>>)>>, <<"a", ModelValue>> >>) }
    /\ cur.args = << PDict(<< <<"b", PTuple(<<PInt(1)>>)>>, <<"a", ModelValue>> >>) >>
    /\ cur.output_dict =
          PDict(<< <<"b", PList(<<PInt(1)>>)>>, <<"a", PDict(<< <<"a", PInt(1)>> >>)>> >>)
    /\ DictGet(cur.input_dict, "x") = cur.output_dict
    /\ cur.result = <<"ret", cur.args[1]>>
    /\ cur.result[2] # cur.output_dict

(***************************************************************************)
(* Union types at every nesting depth: a declaration def f(x: T) -> T with *)
(* T drawn from the unions and the arrays, mappings and tuples around      *)
(* them, up to MaxNesting levels, is decorated.                            *)
(***************************************************************************)
\* class Out(BaseModel): x: int
OutModel ==
    TModel("Out", << [name |-> "x", prim |-> "integer", has_default |-> FALSE] >>, TRUE)

\* Optional[int], Optional[Out], Union[int, str], Union[int, str, None]
UnionLeaves ==
    { TUnionOf(<<TInt, TNoneType>>), TUnionOf(<<OutModel, TNoneType>>),
      TUnionOf(<<TInt, TStr>>), TUnionOf(<<TInt, TStr, TNoneType>>) }

\* List[t], Dict[str, t], Tuple[t, int]
ContainersOf(t) == { TListOf(<<t>>), TDictOf(<<TStr, t>>), TTupleOf(<<t, TInt>>) }

\* Optional[c], Union[c, str, None]
UnionsOver(c) == { TUnionOf(<<c, TNoneType>>), TUnionOf(<<c, TStr, TNoneType>>) }

RECURSIVE NestedTypes(_)
NestedTypes(depth) ==
    IF depth = 0 THEN UnionLeaves
    ELSE LET inner == NestedTypes(depth - 1)
             containers == UNION {ContainersOf(t) : t \in inner}
         IN  inner \cup containers \cup UNION {UnionsOver(c) : c \in containers}

UnionInit ==
    /\ CallsInit
    /\ \E t \in NestedTypes(MaxNesting) :
          decl_a = FuncDef(<<"app">>, <<"f">>, << Param("x", t, FALSE, PNone) >>, t,
                           FALSE, JNull, FALSE, FALSE)
    /\ decl_b = decl_a
    /\ sig_a = <<>>
    /\ sig_a2 = <<>>
    /\ sig_b = <<>>
    /\ rehash = <<>>
    /\ edit = NoEdit

UnionNext == DecorateA

SpecUnion == UnionInit /\ [][UnionNext]_vars

(***************************************************************************)
(* Properties of the translation of unions, under SpecUnion.               *)
(***************************************************************************)
WithoutKey(d, key) == JDict(SelectSeq(d[2], LAMBDA kv : kv[1] # key))

\* schema follows the two union rules for typ, at typ itself and at every
\* type parameter that is translated below it
RECURSIVE UnionRulesHold(_, _)
UnionRulesHold(typ, schema) ==
    LET args == typ[2]
    IN
    CASE typ[1] = "Union" ->
            LET non_null == SelectSeq(args, LAMBDA a : a # TNoneType)
            IN  IF Len(non_null) = 1
                THEN /\ DictHas(schema, "nullable")
                     /\ DictGet(schema, "nullable") = JBool(TRUE)
                     /\ ~DictHas(schema, "anyOf")
                     /\ UnionRulesHold(non_null[1], WithoutKey(schema, "nullable"))
                ELSE /\ DictKeys(schema) = {"anyOf"}
                     /\ LET branches == DictGet(schema, "anyOf")[2]
                        IN  /\ Len(branches) = Len(args)
                            /\ \A i \in 1..Len(args) :
                                  UnionRulesHold(args[i], branches[i])
                            /\ Len(non_null) < Len(args) =>
                                  \E j \in 1..Len(branches) :
                                      branches[j] = JDict(<< <<"type", JStr("null")>> >>)
      [] typ[1] = "List" /\ args # <<>> ->
            /\ DictGet(schema, "type") = JStr("array")
            /\ UnionRulesHold(args[1], DictGet(schema, "items"))
      [] typ[1] = "Dict" /\ Len(args) >= 2 ->
            /\ DictGet(schema, "type") = JStr("object")
            /\ UnionRulesHold(args[2], DictGet(schema, "additionalProperties"))
      [] typ[1] = "Tuple" /\ args # <<>> ->
            /\ DictGet(schema, "type") = JStr("array")
            /\ LET items == DictGet(schema, "items")[2]
               IN  /\ Len(items) = Len(args)
                   /\ \A i \in 1..Len(args) : UnionRulesHold(args[i], items[i])
      [] OTHER -> schema = python_type_to_json_schema(typ)

\* C23: in the schema of a decorated function, every union with one
\* non-null branch next to null is the translation of that branch marked
\* nullable, and every union with more non-null branches is the union of its
\* translated branches, null among them when null is a branch; at the top of
\* the parameter's type and at every depth inside arrays, mappings and
\* tuples.
C23_UnionTranslation ==
    sig_a # <<>> =>
        /\ UnionRulesHold(decl_a.params[1].ann,
                          DictGet(DictGet(sig_a[1].input_schema, "properties"), "x"))
        /\ IsUnionSchema(sig_a[1].output_schema) =>
              UnionRulesHold(decl_a.ret, sig_a[1].output_schema)

\* def f(x: Dict[str, Optional[List[Union[int, str, None]]]])
C23_Witness ==
    /\ sig_a # <<>>
    /\ decl_a.params[1].ann =
          TDictOf(<<TStr, TUnionOf(<<TListOf(<<TUnionOf(<<TInt, TStr, TNoneType>>)>>),
                                     TNoneType>>)>>)
    /\ DictGet(DictGet(sig_a[1].input_schema, "properties"), "x") =
          JDict(<< <<"type", JStr("object")>>,
                   <<"additionalProperties",
                     JDict(<< <<"type", JStr("array")>>,
                              <<"items",
                                JDict(<< <<"anyOf",
                                         JList(<< JDict(<< <<"type", JStr("integer")>> >>),
                                                  JDict(<< <<"type", JStr("string")>> >>),
                                                  JDict(<< <<"type", JStr("null")>> >>) >>)>> >>)>>,
                              <<"nullable", JBool(TRUE)>> >>)>> >>)

(***************************************************************************)
(* Properties of calls made before the SDK is initialised, under Spec.     *)
(***************************************************************************)
ConfigError == <<"raise", Exc("RuntimeError")>>

OrderBaseFour ==
    FuncDef(<<"app">>, <<"f">>,
            << Param("x", TInt, FALSE, PNone), Param("y", TStr, FALSE, PNone),
               Param("a", TInt, TRUE, PInt(1)), Param("b", TStr, TRUE, PStr("s")) >>,
            TInt, FALSE, JStr("doc f"), FALSE, FALSE)

\* class S: def f(self, x: int, y: int, z: int, a: int = 1) -> int
OrderBaseMethod ==
    FuncDef(<<"app">>, <<"S", "f">>,
            << Param("self", TEmpty, FALSE, PNone),
               Param("x", TInt, FALSE, PNone), Param("y", TInt, FALSE, PNone),
               Param("z", TInt, FALSE, PNone), Param("a", TInt, TRUE, PInt(1)) >>,
            TInt, FALSE, JNull, TRUE, FALSE)

\* def f(x: int, a: int = 1, b: int = 1, c: int = 1) -> int
OrderBaseDefaults ==
    FuncDef(<<"app">>, <<"f">>,
            << Param("x", TInt, FALSE, PNone), Param("a", TInt, TRUE, PInt(1)),
               Param("b", TInt, TRUE, PInt(1)), Param("c", TInt, TRUE, PInt(1)) >>,
            TInt, FALSE, JNull, FALSE, FALSE)

OrderBases == {OrderBaseFour, OrderBaseMethod, OrderBaseDefaults}

Docs == {JNull, JStr("doc f"), JStr("doc g")}

DefaultValues == {PNone, PInt(1), PInt(2), PStr("s")}

OrderInit ==
    /\ CallsInit
    /\ decl_a \in OrderBases
    /\ decl_b = decl_a
    /\ sig_a = <<>>
    /\ sig_a2 = <<>>
    /\ sig_b = <<>>
    /\ rehash = <<>>
    /\ edit = NoEdit

\* the parameters written in another order; the receiver of a method stays
\* in front
ReorderParams ==
    \E perm \in Permutations(1..Len(decl_a.params)) :
        /\ \E i \in 1..Len(decl_a.params) : perm[i] # i
        /\ decl_a.is_method => perm[1] = 1
        /\ EditParams([i \in 1..Len(decl_a.params) |-> decl_a.params[perm[i]]],
                      [kind |-> "reorder"])

\* another default value for a parameter that has one
ChangeDefaultValue ==
    \E i \in 1..Len(decl_a.params), v \in DefaultValues :
        /\ decl_a.params[i].has_default
        /\ v # decl_a.params[i].default
        /\ EditParams([decl_a.params EXCEPT ![i].default = v],
                      [kind |-> "default_value", name |-> decl_a.params[i].name])

\* another docstring, or none
ChangeDoc ==
    \E doc \in Docs :
        /\ edit = NoEdit
        /\ sig_b = <<>>
        /\ doc # decl_a.doc
        /\ decl_b' = [decl_a EXCEPT !.doc = doc]
        /\ edit' = [kind |-> "doc"]
        /\ UNCHANGED <<callVars, clock, handles, decl_a, sig_a, sig_a2, sig_b, rehash>>

OrderNext ==
    \/ ReorderParams
    \/ ChangeDefaultValue
    \/ ChangeDoc
    \/ DecorateA
    \/ DecorateAAgain
    \/ DecorateEdited

SpecOrder == OrderInit /\ [][OrderNext]_vars

(***************************************************************************)
(* What the hash depends on, under SpecOrder.                              *)
(***************************************************************************)
\* the names of the parameters without a default, in declaration order,
\* the receiver left out
RequiredOrder(func) ==
    LET needed == SelectSeq(DeclaredParams(func), LAMBDA p : ~p.has_default)
    IN  [i \in 1..Len(needed) |-> needed[i].name]

\* C29: with the scope name and the names and types of the parameters
\* fixed, writing the parameters in another order changes the hash exactly
\* when the parameters without a default come in another order; another
\* docstring or another default value leaves the hash as it was; and a
\* second decoration at a later time yields the same hash.
C29_HashOrderDependence ==
    /\ EditDecorated =>
          /\ sig_a[1].function_name = sig_b[1].function_name
          /\ edit.kind = "reorder" =>
                (HashChanged <=> RequiredOrder(decl_a) # RequiredOrder(decl_b))
          /\ edit.kind \in {"doc", "default_value"} => ~HashChanged
    /\ (sig_a # <<>> /\ sig_a2 # <<>>) =>
          /\ sig_a[1].created_at # sig_a2[1].created_at
          /\ sig_a[1].signature_hash = sig_a2[1].signature_hash

\* def f(x, y, a=1, b="s") against def f(y, x, b="s", a=1)
C29_Witness ==
    /\ EditDecorated
    /\ edit.kind = "reorder"
    /\ decl_a = OrderBaseFour
    /\ RequiredOrder(decl_b) = <<"y", "x">>
    /\ decl_b.params[3].name = "b"
    /\ HashChanged

\* def f(x, a=1, b=1, c=1) against def f(x, c=1, a=1, b=1): the same hash
C29_WitnessDefaultsReordered ==
    /\ EditDecorated
    /\ edit.kind = "reorder"
    /\ decl_a = OrderBaseDefaults
    /\ decl_b.params[2].name = "c"
    /\ sig_a[1].input_schema # sig_b[1].input_schema
    /\ ~HashChanged

C29_WitnessDoc ==
    /\ EditDecorated
    /\ edit.kind = "doc"
    /\ sig_a[1].description # sig_b[1].description
    /\ ~HashChanged

(***************************************************************************)
(* The decorator applied twice: f = blackbox(blackbox(f)), before the      *)
(* program's first call.  The name of the function is then bound to the    *)
(* outer wrapper, and the calls go to it.                                  *)
(***************************************************************************)
DecorateTwice ==
    \E w \in 1..Len(wrappers) :
        /\ AllDecorated
        /\ twice = {}
        /\ ncalls = 0
        /\ wrappers' = [wrappers EXCEPT ![w] = blackbox(wrappers[w], clock)]
        /\ clock' = clock + 1
        /\ twice' = {w}
        /\ UNCHANGED <<declVars, handles, values, stack, parked, completions, otel,
                       config_initialized,
                       project_key, api_server, provider, ncalls, cur, sink, returned>>

\* a call of the wrapper that was decorated twice
CallDecoratedTwice == CallOf(twice, HandleArgLists, {<<>>}, {0})

TwiceNext ==
    \/ Decorate
    \/ SetConfig
    \/ DecorateTwice
    \/ CallDecoratedTwice
    \/ Await
    \/ FuncReturns
    \/ FuncRaises
    \/ BuildInput
    \/ SerializeOutput
    \/ Emit
    \/ Return

SpecTwice == Init /\ [][TwiceNext]_vars

(***************************************************************************)
(* Properties of a double decoration, under SpecTwice.                     *)
(***************************************************************************)
\* the delivery attempts the sink has seen from the call in progress
AttemptsOfCall == {i \in 1..Len(sink) : sink[i].call = cur.call}

\* C30: a wrapper made by decorating twice has the scope name and the hash
\* of the single decoration, is asynchronous exactly when the function is,
\* and calls the function itself; every call of it runs the function once
\* and makes one delivery attempt when the function returned and the
\* capture was built, and never two.
C30_DoubleDecorationCapturesOnce ==
    /\ \A w \in twice :
          /\ wrappers[w].function_name = scoped_function_name(Funcs[w])
          /\ wrappers[w].signature.signature_hash = DecorationHash[w]
          /\ wrappers[w].signature.function_name = scoped_function_name(Funcs[w])
          /\ wrappers[w].is_async = Funcs[w].is_async
          /\ wrappers[w].func = Funcs[w]
    /\ (cur.w \in twice /\ cur.pc \notin {"idle", "created"}) =>
          /\ cur.f_runs = 1
          /\ Cardinality(AttemptsOfCall) <= 1
          /\ cur.payload # <<>> => Cardinality(AttemptsOfCall) = 1
          /\ cur.result[1] = "ret" => Cardinality(AttemptsOfCall) = 1

\* async def g decorated twice, called and awaited as the second call
C30_Witness ==
    /\ twice = {2}
    /\ Finished
    /\ cur.w = 2
    /\ cur.call = 2
    /\ cur.f_runs = 1
    /\ cur.result = <<"ret", TupleValue>>
    /\ Len(sink) = 2
    /\ sink[1].call = 1
    /\ sink[2].call = 2

(***************************************************************************)
(* Nested calls: the original function of a synchronous wrapped function   *)
(* calls another synchronous wrapped function, up to MaxDepth levels deep. *)
(* The caller's frame waits on the stack; what became of the finished call *)
(* is kept in the caller's frame (inner).                                  *)
(***************************************************************************)
SyncWrappers == {w \in 1..Len(wrappers) : ~wrappers[w].is_async}

\* the wrapped plain functions, which a function body calls by name
PlainWrappers == {w \in SyncWrappers : ~wrappers[w].func.is_method}

NestArgLists == { <<PInt(1)>> }

CallOuter == CallOf(SyncWrappers, NestArgLists, {<<>>}, AmbientSpans)

\* what is left of a call that is over: its span, whether the span was
\* ended, how the original ended, and the trace ids of its capture
Outcome(frame) ==
    [call |-> frame.call,
     span |-> frame.span,
     span_ended |-> frame.span_ended,
     over |-> frame.pc = "done",
     fout |-> frame.fout[1],
     lookup |-> frame.lookup,
     captured |-> frame.payload # <<>>,
     ids |-> IF frame.payload # <<>>
             THEN << frame.payload[1].otel_trace_id, frame.payload[1].otel_span_id,
                     frame.payload[1].parent_span_id >>
             ELSE <<>>]

\* inside self.func(*args, **kwargs): a call of a wrapped function, whose
\* span starts while the caller's span is the current one
NestedCall ==
    \E w \in PlainWrappers, args \in NestArgLists, obj \in {PNone} :
        /\ cur.pc = "invoke"
        /\ ~CurIsAsync
        /\ Len(stack) < MaxDepth
        /\ ncalls < MaxCalls
        /\ (obj # PNone) <=> wrappers[w].func.is_method
        /\ ncalls' = ncalls + 1
        /\ stack' = Append(stack, cur)
        /\ cur' = [IdleFrame EXCEPT
                     !.pc = "invoke",
                     !.w = w,
                     !.call = ncalls + 1,
                     !.configured = config_initialized,
                     !.args = descriptor_get(obj) \o args,
                     !.recv = obj,
                     !.span = start_span_under(ncalls + 1, cur.span),
                     !.f_runs = 1]
        /\ UNCHANGED <<declVars, handles, values, twice, parked, completions, otel,
                   config_initialized, project_key,
                       api_server, provider, wrappers, clock, sink, returned>>

\* the nested call is over, with a value or an exception: control is back
\* in the caller's original function
NestedReturn ==
    /\ cur.pc = "done"
    /\ stack # <<>>
    /\ cur' = [stack[Len(stack)] EXCEPT !.inner = Append(@, Outcome(cur))]
    /\ stack' = SubSeq(stack, 1, Len(stack) - 1)
    /\ UNCHANGED <<declVars, handles, values, twice, parked, completions, otel,
                   config_initialized, project_key,
                   api_server, provider, wrappers, clock, ncalls, sink, returned>>

NestNext ==
    \/ Decorate
    \/ InitSdk
    \/ CallOuter
    \/ NestedCall
    \/ NestedReturn
    \/ FuncReturns
    \/ FuncRaises
    \/ BuildInput
    \/ SerializeOutput
    \/ Emit
    \/ Return

SpecNest == Init /\ [][NestNext]_vars

(***************************************************************************)
(* Properties of nested calls, under SpecNest.                             *)
(***************************************************************************)
\* the frames that are, or were, inside their original function
ActiveFrames == {cur} \cup Range(stack)

\* the place of a call's delivery attempt in the sink
SinkPos(call) == CHOOSE i \in 1..Len(sink) : sink[i].call = call

\* C28: for every call n made by the original function of a call o: n's
\* span was ended when n was over, whether its original returned or raised;
\* when both were captured, n's capture reached the sink before o's; and
\* when o ran under a recording tracer and both read their span, the two
\* captures carry the same trace_id and n's parent_span_id is o's span_id.
\* The span of every call that is over was ended.
C28_NestedCaptureLinked ==
    /\ \A o \in ActiveFrames :
          \A k \in 1..Len(o.inner) :
              LET n == o.inner[k]
              IN  /\ n.over
                  /\ n.span_ended
                  /\ (n.captured /\ o.payload # <<>>) =>
                        /\ SinkPos(n.call) < SinkPos(o.call)
                        /\ (o.span.valid /\ n.lookup = "ok" /\ o.lookup = "ok") =>
                              /\ n.ids[1] # PNone
                              /\ n.ids[1] = o.payload[1].otel_trace_id
                              /\ n.ids[3] = o.payload[1].otel_span_id
    /\ \A f \in ActiveFrames : f.span_ended <=> (f.pc = "done")

\* f calls g under the SDK tracer; both return and both are captured
C28_Witness ==
    /\ Finished
    /\ stack = <<>>
    /\ Len(cur.inner) = 1
    /\ cur.span.valid
    /\ cur.span.parent = 0
    /\ cur.payload # <<>>
    /\ cur.inner[1].captured
    /\ cur.inner[1].fout = "ret"
    /\ cur.inner[1].ids = << Hex(32, cur.call), Hex(16, cur.inner[1].call),
                             Hex(16, cur.call) >>
    /\ cur.payload[1].otel_span_id = Hex(16, cur.call)
    /\ cur.payload[1].parent_span_id = PNone
    /\ sink = << [call |-> 2, ok |-> TRUE], [call |-> 1, ok |-> TRUE] >>

\* the nested call raised, the caller's original let it through: both spans
\* were ended and nothing was captured
C28_WitnessRaised ==
    /\ Finished
    /\ stack = <<>>
    /\ Len(cur.inner) = 1
    /\ cur.span.valid
    /\ cur.inner[1].span.valid
    /\ cur.inner[1].fout = "raise"
    /\ cur.fout[1] = "raise"
    /\ cur.inner[1].span_ended
    /\ cur.span_ended
    /\ sink = <<>>

(***************************************************************************)
(* Concurrent calls: up to MaxThreads threads are inside wrapped calls at  *)
(* the same time.  One of them runs (cur), the others are switched out     *)
(* (parked); the interpreter may switch threads between any two steps.     *)
(***************************************************************************)
ConcValue == PStr("s")

\* the SDK was configured before the threads were started
ConcInit ==
    /\ config_initialized = TRUE
    /\ project_key = "bbc_proj_1"
    /\ api_server = DEFAULT_API_SERVER
    /\ provider = "noop"
    /\ wrappers = <<>>
    /\ handles = {}
    /\ clock = 0
    /\ ncalls = 0
    /\ cur = IdleFrame
    /\ sink = <<>>
    /\ returned = <<>>
    /\ DeclInit
    /\ values = {ConcValue}
    /\ twice = {}
    /\ stack = <<>>
    /\ parked = {}
    /\ completions = <<>>
    /\ otel = OtelStart

ConcWrappers == {w \in 1..Len(wrappers) : ~wrappers[w].func.is_method}

\* every call passes its own number, so that two calls' inputs differ
CallConc == CallOf(ConcWrappers, { <<PInt(ncalls + 1)>> }, {<<>>}, {0})

\* the delivery while other threads are about: the request gets through or
\* fails on the way
EmitConc == EmitWith({"ok"}, {"ok", "request_error"})

\* the locals of a thread that is switched in, the variant in which the
\* wrapper keeps its working values where every thread sees them
resume_sharing_locals(frame, prev) ==
    [frame EXCEPT !.input_dict = prev.input_dict,
                  !.output_data = prev.output_data,
                  !.output_dict = prev.output_dict]

\* the locals of a thread that is switched in: input_dict, output_data and
\* output_dict are local variables of _execute_sync and _execute_async, so
\* each call finds its own
resume(frame, prev) == frame

\* the call that is left behind when the running thread or task loses the
\* processor: none if it was not inside a call
LeftBehind == IF cur.pc \in {"idle", "done"} THEN {} ELSE {cur}

\* the interpreter switches threads: the running call is parked and another
\* thread goes on with its call, or is about to make one
Switch ==
    /\ stack = <<>>
    /\ AllDecorated
    /\ \E f \in parked \cup {IdleFrame} :
          /\ f # cur
          /\ f = IdleFrame => ncalls < MaxCalls
          /\ parked' = (parked \ {f}) \cup LeftBehind
          /\ Cardinality(parked') < MaxThreads
          /\ cur' = resume(f, cur)
    /\ UNCHANGED <<declVars, handles, values, twice, stack, completions, otel,
                   config_initialized, project_key, api_server, provider, wrappers,
                   clock, ncalls, sink, returned>>

ConcNext ==
    \/ Decorate
    \/ CallConc
    \/ Await
    \/ FuncReturns
    \/ BuildInput
    \/ SerializeOutput
    \/ EmitConc
    \/ Return
    \/ Switch

SpecConc == ConcInit /\ [][ConcNext]_vars

\* the calls in progress, on whatever thread
Frames == {cur} \cup parked

\* C21: when calls of wrapped functions interleave, every call's working
\* values are its own (its input is built from its own arguments, its output
\* is the serialization of what its own original returned, its result is
\* that value), every capture pairs the input and the output of one call
\* with the Signature of the wrapper that was called, and no wrapper's
\* Signature is changed.
C21_InterleavedCallsKeepApart ==
    /\ \A f \in Frames :
          /\ f.input_dict # NoVal =>
                /\ f.w # 0
                /\ f.input_dict = build_input_dict(wrappers[f.w].sig, f.args, f.kwargs)[2]
          /\ f.output_data # NoVal =>
                /\ f.fout # NoVal
                /\ f.output_data = f.fout[2]
          /\ f.output_dict # NoVal =>
                /\ f.fout # NoVal
                /\ f.output_dict = serialize_value(f.fout[2])
          /\ f.result[1] = "ret" => f.result[2] = f.fout[2]
          /\ f.payload # <<>> =>
                LET p == f.payload[1]
                    sg == wrappers[f.w].signature
                IN  /\ p.input = f.input_dict
                    /\ p.output = f.output_dict
                    /\ p.signature_hash = sg.signature_hash
                    /\ p.function_name = sg.function_name
                    /\ p.input_schema = sg.input_schema
                    /\ p.output_schema = sg.output_schema
                    /\ p.description = sg.description
    /\ \A w \in 1..Len(wrappers) :
          LET sg == wrappers[w].signature
          IN  /\ sg.signature_hash = DecorationHash[w]
              /\ sg.function_name = scoped_function_name(Funcs[w])
              /\ sg.input_schema = extract_input_schema(Funcs[w])
              /\ sg.output_schema = extract_output_schema(Funcs[w])

\* two calls in flight at once, of different wrappers, with different
\* arguments and different results: the second was captured while the first
\* was switched out between its output's serialization and its delivery,
\* then the first was captured
C21_Witness ==
    /\ cur.call = 1
    /\ cur.payload # <<>>
    /\ \E f \in parked :
          /\ f.call = 2
          /\ f.pc = "return"
          /\ f.w # cur.w
          /\ f.args # cur.args
          /\ f.output_data # cur.output_data
          /\ f.payload # <<>>
          /\ f.payload[1].input # cur.payload[1].input
          /\ f.payload[1].output # cur.payload[1].output
    /\ Len(sink) = 2
    /\ sink[1].call = 2
    /\ sink[2].call = 1

\* two calls of the same wrapper in flight at once, both captured
C21_WitnessSameWrapper ==
    /\ cur.payload # <<>>
    /\ \E f \in parked :
          /\ f.w = cur.w
          /\ f.payload # <<>>
          /\ f.payload[1].input # cur.payload[1].input
          /\ f.payload[1].signature_hash = cur.payload[1].signature_hash

(***************************************************************************)
(* Tasks on one event loop: wrapped coroutine functions run as tasks; the  *)
(* loop runs one task at a time and takes another only when the running    *)
(* one is suspended at an await that is not ready, or is over.             *)
(***************************************************************************)
AsyncWrappers == {w \in 1..Len(wrappers) : wrappers[w].is_async}

\* asyncio.create_task(g(n)): each task passes its own number
CallTask == CallOf(AsyncWrappers, { <<PInt(ncalls + 1)>> }, {<<>>}, {0})

\* where a task of _async_call can lose the loop, the variant in which the
\* delivery is awaited as well
at_suspension_point_async_delivery(frame) ==
    \/ frame.pc = "created"
    \/ frame.pc = "invoke" /\ frame.suspended
    \/ frame.pc = "emit"

\* where a task of _async_call can lose the loop: before its first step, and
\* at the one await of _execute_async, inside the original coroutine; what
\* follows the await is synchronous code, httpx.post included
at_suspension_point(frame) ==
    \/ frame.pc = "created"
    \/ frame.pc = "invoke" /\ frame.suspended

\* the event loop takes another task, or goes back to the code that creates
\* the tasks
TaskSwitch ==
    /\ cur.pc \in {"idle", "done"} \/ at_suspension_point(cur)
    /\ Switch

\* output_data = await self.func(...) returns
OriginalCompletes ==
    /\ cur.pc = "invoke"
    /\ ~cur.suspended
    /\ \E o \in FuncOutcomes(wrappers[cur.w].func, cur.args, cur.kwargs) :
          /\ o[1] = "ret"
          /\ cur' = original_returns(cur, o)
    /\ completions' = Append(completions, cur.call)
    /\ UNCHANGED <<declVars, handles, values, twice, stack, parked, otel,
                   config_initialized, project_key, api_server, provider, wrappers,
                   clock, ncalls, sink, returned>>

AsyncNext ==
    \/ Decorate
    \/ CallTask
    \/ Await
    \/ FuncSuspend
    \/ FuncResume
    \/ OriginalCompletes
    \/ FuncRaises
    \/ BuildInput
    \/ SerializeOutput
    \/ Emit
    \/ Return
    \/ TaskSwitch

SpecAsync == ConcInit /\ [][AsyncNext]_vars

\* the place of a call in the order of completion, 0 if its original has
\* not returned
CompletionPos(call) ==
    IF \E i \in 1..Len(completions) : completions[i] = call
    THEN CHOOSE i \in 1..Len(completions) : completions[i] = call
    ELSE 0

\* C27: among tasks on one event loop, a task that is not running is never
\* between the completion of its original coroutine and its wrapper's return
\* (the wrapper suspends only where the original does), the sink receives
\* the delivery attempts in the order in which the originals completed, and
\* a task has a result only after its delivery attempt was made.
C27_NoSuspensionAfterCompletion ==
    /\ \A f \in parked : f.pc \notin {"bind", "serialize", "emit", "return"}
    /\ \A f \in Frames : f.task_yields = f.f_suspends
    /\ \A i \in 1..Len(sink) : CompletionPos(sink[i].call) # 0
    /\ \A i, j \in 1..Len(sink) :
          i < j => CompletionPos(sink[i].call) < CompletionPos(sink[j].call)
    /\ \A f \in Frames :
          f.result[1] = "ret" => \E i \in 1..Len(sink) : sink[i].call = f.call
    /\ \A k \in 1..Len(returned) : \E i \in 1..Len(sink) : sink[i].call = returned[k]

\* task 1 started first and was suspended inside its original; task 2 ran,
\* completed, was delivered and returned; then task 1 completed and was
\* delivered: the sink has them in the order of completion
C27_Witness ==
    /\ cur.call = 1
    /\ cur.pc = "done"
    /\ cur.f_suspends = 1
    /\ cur.result[1] = "ret"
    /\ completions = <<2, 1>>
    /\ Len(sink) = 2
    /\ sink[1].call = 2
    /\ sink[2].call = 1
    /\ returned = <<2, 1>>

(***************************************************************************)
(* otel_setup: initialize_otel called from up to MaxThreads threads (thread *)
(* 1 is the main thread), statement by statement under _lock, and          *)
(* _graceful_shutdown run by atexit and by the SIGTERM and SIGINT          *)
(* handlers.  Python runs a signal handler in the main thread, between two *)
(* of its bytecodes, whatever the main thread is doing: inside             *)
(* initialize_otel, or inside a handler that is already running            *)
(* (otel.running holds the handler invocations, the innermost last).       *)
(***************************************************************************)
besideOtel == <<provider, wrappers, clock, ncalls, cur, sink, returned, declVars,
                handles, values, twice, stack, parked, completions>>

Signals == {"SIGTERM", "SIGINT"}

\* thread t is at statement pc and has the processor: the main thread does
\* not go on while a signal handler runs
ThreadAt(t, pc) ==
    /\ otel.pc[t] = pc
    /\ t = 1 => otel.running = <<>>

\* leaving the with block, by return or after the except clauses: the lock
\* is released
leave(o, t) == [o EXCEPT !.pc[t] = "out", !.lock = 0]

\* init(key, api_server): set_config, then the call of initialize_otel
InitCalled ==
    \E t \in 1..MaxThreads, key \in Keys, server_arg \in ApiServerArgs :
        /\ ThreadAt(t, "out")
        /\ ~otel.exited
        /\ otel.inits < MaxCalls
        /\ set_config(key, server_arg)
        /\ otel' = [otel EXCEPT !.pc[t] = "acquire", !.inits = @ + 1]
        /\ UNCHANGED besideOtel

\* with _lock:
AcquireLock ==
    \E t \in 1..MaxThreads :
        /\ ThreadAt(t, "acquire")
        /\ otel.lock = 0
        /\ otel' = [otel EXCEPT !.pc[t] = "test", !.lock = t]
        /\ UNCHANGED <<config_initialized, project_key, api_server, besideOtel>>

\* if _initialized: return
TestInitialized ==
    \E t \in 1..MaxThreads :
        /\ ThreadAt(t, "test")
        /\ otel' = IF otel.initialized THEN leave(otel, t)
                   ELSE [otel EXCEPT !.pc[t] = "imports"]
        /\ UNCHANGED <<config_initialized, project_key, api_server, besideOtel>>

\* the imports at the head of the try block: ImportError is logged and the
\* function returns with _initialized still False
Imports ==
    \E t \in 1..MaxThreads, ok \in BOOLEAN :
        /\ ThreadAt(t, "imports")
        /\ otel' = IF ok THEN [otel EXCEPT !.pc[t] = "existing"]
                   ELSE leave([otel EXCEPT !.failures = @ + 1], t)
        /\ UNCHANGED <<config_initialized, project_key, api_server, besideOtel>>

\* the conflict test, the variant that never sees a conflict
is_conflict_never(existing) == FALSE

\* not isinstance(existing_provider, (NoOpTracerProvider, ProxyTracerProvider))
is_conflict(existing) == existing \notin {"noop", "proxy"}

\* existing_provider = trace.get_tracer_provider() and the conflict branch,
\* which sets _initialized and returns
CheckExisting ==
    \E t \in 1..MaxThreads :
        /\ ThreadAt(t, "existing")
        /\ otel' = IF is_conflict(otel.tracer_provider)
                   THEN leave([otel EXCEPT !.initialized = TRUE], t)
                   ELSE [otel EXCEPT !.pc[t] = "create"]
        /\ UNCHANGED <<config_initialized, project_key, api_server, besideOtel>>

\* provider = TracerProvider()
CreateProvider ==
    \E t \in 1..MaxThreads :
        /\ ThreadAt(t, "create")
        /\ otel' = [otel EXCEPT !.pc[t] = "install", !.created = @ + 1]
        /\ UNCHANGED <<config_initialized, project_key, api_server, besideOtel>>

\* opentelemetry's set_tracer_provider sets the global provider once: a
\* later call logs a warning and leaves the provider that is set
set_tracer_provider(o, kind) ==
    IF o.tracer_provider = "proxy"
    THEN [o EXCEPT !.tracer_provider = kind,
                   !.installed = IF kind = "sdk" THEN @ + 1 ELSE @]
    ELSE o

\* trace.set_tracer_provider(provider)
SetTracerProvider ==
    \E t \in 1..MaxThreads :
        /\ ThreadAt(t, "install")
        /\ otel' = [set_tracer_provider(otel, "sdk") EXCEPT !.pc[t] = "exporter"]
        /\ UNCHANGED <<config_initialized, project_key, api_server, besideOtel>>

\* the exporter and the span processor are built and added, and the LLM
\* providers instrumented; an exception of the constructors is logged and
\* the function returns with _initialized still False
AddSpanProcessor ==
    \E t \in 1..MaxThreads, ok \in BOOLEAN :
        /\ ThreadAt(t, "exporter")
        /\ otel' = IF ok THEN [otel EXCEPT !.pc[t] = "registered_test"]
                   ELSE leave([otel EXCEPT !.failures = @ + 1], t)
        /\ UNCHANGED <<config_initialized, project_key, api_server, besideOtel>>

\* _register_shutdown_handlers: if _shutdown_registered: return
TestRegistered ==
    \E t \in 1..MaxThreads :
        /\ ThreadAt(t, "registered_test")
        /\ otel' = [otel EXCEPT !.pc[t] = IF otel.shutdown_registered
                                          THEN "set_initialized" ELSE "atexit"]
        /\ UNCHANGED <<config_initialized, project_key, api_server, besideOtel>>

\* atexit.register(_graceful_shutdown)
RegisterAtexit ==
    \E t \in 1..MaxThreads :
        /\ ThreadAt(t, "atexit")
        /\ otel' = [otel EXCEPT !.pc[t] = "signals", !.atexit_handlers = @ + 1]
        /\ UNCHANGED <<config_initialized, project_key, api_server, besideOtel>>

\* signal.signal(SIGTERM, ...), signal.signal(SIGINT, ...): outside the main
\* thread the first raises ValueError, which is caught
RegisterSignals ==
    \E t \in 1..MaxThreads :
        /\ ThreadAt(t, "signals")
        /\ otel' = IF t = 1
                   THEN [otel EXCEPT !.pc[t] = "set_registered",
                                     !.sigterm_handlers = @ + 1,
                                     !.sigint_handlers = @ + 1]
                   ELSE [otel EXCEPT !.pc[t] = "set_registered"]
        /\ UNCHANGED <<config_initialized, project_key, api_server, besideOtel>>

\* _shutdown_registered = True
SetRegistered ==
    \E t \in 1..MaxThreads :
        /\ ThreadAt(t, "set_registered")
        /\ otel' = [otel EXCEPT !.pc[t] = "set_initialized",
                                !.shutdown_registered = TRUE]
        /\ UNCHANGED <<config_initialized, project_key, api_server, besideOtel>>

\* _initialized = True, at the end of the try block
SetInitialized ==
    \E t \in 1..MaxThreads :
        /\ ThreadAt(t, "set_initialized")
        /\ otel' = leave([otel EXCEPT !.initialized = TRUE, !.completed = TRUE], t)
        /\ UNCHANGED <<config_initialized, project_key, api_server, besideOtel>>

\* another tool of the process calls set_tracer_provider, with a provider
\* of its own or with a NoOpTracerProvider
OtherToolConfigures ==
    \E kind \in {"other", "noop"} :
        /\ ~otel.exited
        /\ otel.tracer_provider = "proxy"
        /\ otel' = [set_tracer_provider(otel, kind) EXCEPT !.foreign = kind]
        /\ UNCHANGED <<config_initialized, project_key, api_server, besideOtel>>

\* an invocation of _graceful_shutdown, about to run its first statement
Invocation(how) == [how |-> how, pc |-> "test"]

\* SIGTERM or SIGINT arrives and its handler is _graceful_shutdown: the
\* main thread runs it before its next bytecode
SignalArrives ==
    \E sig \in Signals :
        /\ IF sig = "SIGTERM" THEN otel.sigterm_handlers > 0
                              ELSE otel.sigint_handlers > 0
        /\ otel.signals < MaxSignals
        /\ otel' = [otel EXCEPT !.signals = @ + 1,
                                !.running = Append(@, Invocation(sig))]
        /\ UNCHANGED <<config_initialized, project_key, api_server, besideOtel>>

\* the interpreter exits, every thread being out of initialize_otel, and
\* runs the atexit handlers
AtExit ==
    /\ ~otel.exited
    /\ otel.atexit_handlers > 0
    /\ otel.running = <<>>
    /\ \A t \in 1..MaxThreads : otel.pc[t] = "out"
    /\ otel' = [otel EXCEPT !.exited = TRUE,
                            !.running = Append(@, Invocation("atexit"))]
    /\ UNCHANGED <<config_initialized, project_key, api_server, besideOtel>>

\* the innermost invocation of _graceful_shutdown, the one that runs
Innermost == otel.running[Len(otel.running)]

\* the invocation returns
handler_returns(o) == [o EXCEPT !.running = SubSeq(@, 1, Len(@) - 1)]

\* the invocation goes on to its next statement
handler_goes_to(o, pc) == [o EXCEPT !.running[Len(o.running)].pc = pc]

\* if not _initialized or _shutdown_complete: return
HandlerTest ==
    /\ otel.running # <<>>
    /\ Innermost.pc = "test"
    /\ otel' = IF ~otel.initialized \/ otel.shutdown_complete
               THEN handler_returns(otel)
               ELSE handler_goes_to(otel, "set")
    /\ UNCHANGED <<config_initialized, project_key, api_server, besideOtel>>

\* _shutdown_complete = True
HandlerSetComplete ==
    /\ otel.running # <<>>
    /\ Innermost.pc = "set"
    /\ otel' = handler_goes_to([otel EXCEPT !.shutdown_complete = TRUE], "flush")
    /\ UNCHANGED <<config_initialized, project_key, api_server, besideOtel>>

\* provider.force_flush(timeout_millis=30000); an exception ends the try
\* block
HandlerFlush ==
    \E ok \in BOOLEAN :
        /\ otel.running # <<>>
        /\ Innermost.pc = "flush"
        /\ otel' = IF ok
                   THEN handler_goes_to([otel EXCEPT !.flushes = @ + 1], "shutdown")
                   ELSE handler_returns([otel EXCEPT !.flushes = @ + 1])
        /\ UNCHANGED <<config_initialized, project_key, api_server, besideOtel>>

\* provider.shutdown()
HandlerShutdown ==
    /\ otel.running # <<>>
    /\ Innermost.pc = "shutdown"
    /\ otel' = handler_returns([otel EXCEPT !.shutdowns = @ + 1])
    /\ UNCHANGED <<config_initialized, project_key, api_server, besideOtel>>

OtelNext ==
    \/ InitCalled
    \/ AcquireLock
    \/ TestInitialized
    \/ Imports
    \/ CheckExisting
    \/ CreateProvider
    \/ SetTracerProvider
    \/ AddSpanProcessor
    \/ TestRegistered
    \/ RegisterAtexit
    \/ RegisterSignals
    \/ SetRegistered
    \/ SetInitialized
    \/ OtherToolConfigures
    \/ SignalArrives
    \/ AtExit
    \/ HandlerTest
    \/ HandlerSetComplete
    \/ HandlerFlush
    \/ HandlerShutdown

SpecOtel == Init /\ [][OtelNext]_vars

\* C24: whatever the interleaving of the atexit handler and the SIGTERM and
\* SIGINT handlers, the tracer provider is flushed at most once and shut
\* down at most once, and neither before initialize_otel has run to the end
\* of its try block.
C24_ShutdownAtMostOnce ==
    /\ otel.flushes <= 1
    /\ otel.shutdowns <= 1
    /\ (otel.flushes > 0 \/ otel.shutdowns > 0) => otel.completed

C25_WitnessConcurrent ==
    /\ otel.inits = 2
    /\ otel.pc[1] = "acquire"
    /\ otel.pc[2] = "set_initialized"
    /\ otel.lock = 2
    /\ otel.created = 1
    /\ otel.atexit_handlers = 1
    /\ otel.sigterm_handlers = 0

\* another tool's provider was set before initialize_otel looked
C25_WitnessOtherTool ==
    /\ otel.tracer_provider = "other"
    /\ otel.initialized
    /\ otel.created = 0

====
